---- MODULE Spec2Model ----
(***************************************************************************)
(* Model of the Compa backend normalizers                                  *)
(* (backend/src/services/normalizer.service.ts): ProfileNormalizer and     *)
(* PermissionSetNormalizer turn raw Salesforce permission records into     *)
(* NormalizedProfile documents.                                            *)
(*                                                                         *)
(* Strings that the code sorts, splits or tests for truthiness are         *)
(* sequences of UTF-16 code units; identifiers that are only compared for  *)
(* equality are TLA+ strings.  A JavaScript Map or plain object is a       *)
(* function with a finite domain.                                          *)
(***************************************************************************)
EXTENDS Integers, Sequences, FiniteSets, TLC

(***************************************************************************)
(* Bounds of the model.                                                    *)
(***************************************************************************)
\* longest id sequence passed to normalizeProfiles / normalizePermissionSets
MaxIds == 2
\* longest raw field reference (in code units) in a drawn org
MaxFieldLen == 3
\* most setup-entity-access records in a drawn org
MaxAccess == 2

(***************************************************************************)
(* Strings as code-unit sequences.                                         *)
(***************************************************************************)
\* '.', the separator of fieldPerm.Field.split('.')
Dot == 46
\* a letter used in raw field references
LetterA == 97

\* JavaScript truthiness of a string or of undefined (a missing Map entry)
Undefined == <<0 - 1>>
Truthy(s) == s # Undefined /\ s # <<>>

\* Map.prototype.get: the value, or undefined when the key is absent
MapGet(m, k) == IF k \in DOMAIN m THEN m[k] ELSE Undefined

\* obj[k] = v on a plain object / Map.set(k, v)
Put(m, k, v) == (k :> v) @@ m

EmptyMap == <<>>

\* String.prototype.split(sep) for a one-unit separator: the segments between
\* occurrences of sep ("" yields [""], "a." yields ["a", ""])
RECURSIVE SplitFrom(_, _, _, _)
SplitFrom(s, sep, i, cur) ==
  IF i > Len(s) THEN <<cur>>
  ELSE IF s[i] = sep THEN <<cur>> \o SplitFrom(s, sep, i + 1, <<>>)
  ELSE SplitFrom(s, sep, i + 1, Append(cur, s[i]))

Split(s, sep) == SplitFrom(s, sep, 1, <<>>)

\* a < b in the order Array.prototype.sort() uses without a comparator:
\* code unit by code unit, a proper prefix first
RECURSIVE StrLess(_, _)
StrLess(a, b) ==
  IF b = <<>> THEN FALSE
  ELSE IF a = <<>> THEN TRUE
  ELSE IF Head(a) # Head(b) THEN Head(a) < Head(b)
  ELSE StrLess(Tail(a), Tail(b))

\* insert x into an ascending sequence, after the elements not greater than it
RECURSIVE InsertSorted(_, _)
InsertSorted(x, s) ==
  IF s = <<>> THEN <<x>>
  ELSE IF StrLess(x, Head(s)) THEN <<x>> \o s
  ELSE <<Head(s)>> \o InsertSorted(x, Tail(s))

\* as InsertSorted, but a string already in s is not inserted again
RECURSIVE InsertUnique(_, _)
InsertUnique(x, s) ==
  IF s = <<>> THEN <<x>>
  ELSE IF x = Head(s) THEN s
  ELSE IF StrLess(x, Head(s)) THEN <<x>> \o s
  ELSE <<Head(s)>> \o InsertUnique(x, Tail(s))

\* as SortStrings, but through a set: [...new Set(arr)].sort()
RECURSIVE SortUnique(_)
SortUnique(arr) ==
  IF arr = <<>> THEN <<>>
  ELSE InsertUnique(arr[Len(arr)], SortUnique(SubSeq(arr, 1, Len(arr) - 1)))

\* as SortStrings, but without the sort: [...arr]
CopyUnsorted(arr) == arr

\* [...arr].sort(): a new array holding the same strings in ascending order
RECURSIVE SortStrings(_)
SortStrings(arr) ==
  IF arr = <<>> THEN <<>>
  ELSE InsertSorted(arr[Len(arr)], SortStrings(SubSeq(arr, 1, Len(arr) - 1)))

\* for (const x of seq) acc = Step(acc, x)
RECURSIVE ForEach(_, _, _)
ForEach(Step(_, _), acc, seq) ==
  IF seq = <<>> THEN acc
  ELSE ForEach(Step, Step(acc, Head(seq)), Tail(seq))

(***************************************************************************)
(* Raw records and the per-owner bundle (ProfileDataBundle).               *)
(***************************************************************************)
\* Map.get on a map whose values are ids; "" stands for undefined (both falsy)
NoId == ""
MapGetId(m, k) == IF k \in DOMAIN m THEN m[k] ELSE NoId

Range(seq) == {seq[i] : i \in DOMAIN seq}

\* "Permissions", the prefix of the system-permission columns
PermissionsPrefix == <<80, 101, 114, 109, 105, 115, 115, 105, 111, 110, 115>>

\* key.startsWith(prefix)
StartsWith(key, prefix) ==
  Len(key) >= Len(prefix) /\ SubSeq(key, 1, Len(prefix)) = prefix

\* key.replace(prefix, '') for a key that starts with prefix: the first
\* occurrence, which is the leading one, is removed
StripPrefix(key, prefix) == SubSeq(key, Len(prefix) + 1, Len(key))

EmptyBundle ==
  [objectPermissions |-> <<>>, fieldPermissions |-> <<>>,
   systemPermissions |-> EmptyMap, apexClasses |-> <<>>,
   visualforcePages |-> <<>>, lightningPages |-> <<>>, recordTypes |-> <<>>,
   tabs |-> <<>>, apps |-> <<>>]

\* for (const id of ids) result.set(id, {...empty bundle...})
InitBundles(ids) == [id \in Range(ids) |-> EmptyBundle]

\* the "Permissions*" boolean columns of one PermissionSet record, keyed by
\* the column name without the prefix
ExtractStep(systemPerms, entry) ==
  IF StartsWith(entry.key, PermissionsPrefix) /\ entry.value.type = "boolean"
  THEN Put(systemPerms, StripPrefix(entry.key, PermissionsPrefix), entry.value.bool)
  ELSE systemPerms

ExtractSystemPerms(permSet) ==
  ForEach(ExtractStep, EmptyMap, permSet.entries)

\* as RouteAccessProfile, but a TabSet record is filed under tabs
RouteAccessTabSetAsTab(bundle, access, apexClassNames, apexPageNames, recordTypeNames, customTabNames, customAppNames, lightningPageNames) ==
  LET id == access.SetupEntityId IN
  CASE access.SetupEntityType = "ApexClass" ->
         IF Truthy(MapGet(apexClassNames, id))
         THEN [bundle EXCEPT !.apexClasses = Append(@, apexClassNames[id])]
         ELSE bundle
    [] access.SetupEntityType = "ApexPage" ->
         IF Truthy(MapGet(apexPageNames, id))
         THEN [bundle EXCEPT !.visualforcePages = Append(@, apexPageNames[id])]
         ELSE bundle
    [] access.SetupEntityType = "RecordType" ->
         IF Truthy(MapGet(recordTypeNames, id))
         THEN [bundle EXCEPT !.recordTypes = Append(@, recordTypeNames[id])]
         ELSE bundle
    [] access.SetupEntityType = "TabSet" ->
         IF Truthy(MapGet(customAppNames, id))
         THEN [bundle EXCEPT !.tabs = Append(@, customAppNames[id])]
         ELSE bundle
    [] access.SetupEntityType = "CustomTab" ->
         IF Truthy(MapGet(customTabNames, id))
         THEN [bundle EXCEPT !.tabs = Append(@, customTabNames[id])]
         ELSE bundle
    [] access.SetupEntityType = "FlexiPage" ->
         IF Truthy(MapGet(lightningPageNames, id))
         THEN [bundle EXCEPT !.lightningPages = Append(@, lightningPageNames[id])]
         ELSE [bundle EXCEPT !.lightningPages = Append(@, id)]
    [] OTHER -> bundle

\* the switch on access.SetupEntityType, profile mode
RouteAccessProfile(bundle, access, apexClassNames, apexPageNames, recordTypeNames, customTabNames, customAppNames, lightningPageNames) ==
  LET id == access.SetupEntityId IN
  CASE access.SetupEntityType = "ApexClass" ->
         IF Truthy(MapGet(apexClassNames, id))
         THEN [bundle EXCEPT !.apexClasses = Append(@, apexClassNames[id])]
         ELSE bundle
    [] access.SetupEntityType = "ApexPage" ->
         IF Truthy(MapGet(apexPageNames, id))
         THEN [bundle EXCEPT !.visualforcePages = Append(@, apexPageNames[id])]
         ELSE bundle
    [] access.SetupEntityType = "RecordType" ->
         IF Truthy(MapGet(recordTypeNames, id))
         THEN [bundle EXCEPT !.recordTypes = Append(@, recordTypeNames[id])]
         ELSE bundle
    [] access.SetupEntityType = "TabSet" ->
         IF Truthy(MapGet(customAppNames, id))
         THEN [bundle EXCEPT !.apps = Append(@, customAppNames[id])]
         ELSE bundle
    [] access.SetupEntityType = "CustomTab" ->
         IF Truthy(MapGet(customTabNames, id))
         THEN [bundle EXCEPT !.tabs = Append(@, customTabNames[id])]
         ELSE bundle
    [] access.SetupEntityType = "FlexiPage" ->
         IF Truthy(MapGet(lightningPageNames, id))
         THEN [bundle EXCEPT !.lightningPages = Append(@, lightningPageNames[id])]
         ELSE [bundle EXCEPT !.lightningPages = Append(@, id)]
    [] OTHER -> bundle

\* the switch on access.SetupEntityType, permission-set mode
RouteAccessPermSet(bundle, access, apexClassNames, apexPageNames, recordTypeNames, customTabNames, customAppNames, lightningPageNames) ==
  LET id == access.SetupEntityId IN
  CASE access.SetupEntityType = "ApexClass" ->
         IF Truthy(MapGet(apexClassNames, id))
         THEN [bundle EXCEPT !.apexClasses = Append(@, apexClassNames[id])]
         ELSE bundle
    [] access.SetupEntityType = "ApexPage" ->
         IF Truthy(MapGet(apexPageNames, id))
         THEN [bundle EXCEPT !.visualforcePages = Append(@, apexPageNames[id])]
         ELSE bundle
    [] access.SetupEntityType = "RecordType" ->
         IF Truthy(MapGet(recordTypeNames, id))
         THEN [bundle EXCEPT !.recordTypes = Append(@, recordTypeNames[id])]
         ELSE bundle
    [] access.SetupEntityType = "TabSet" ->
         IF Truthy(MapGet(customAppNames, id))
         THEN [bundle EXCEPT !.apps = Append(@, customAppNames[id])]
         ELSE bundle
    [] access.SetupEntityType = "CustomTab" ->
         IF Truthy(MapGet(customTabNames, id))
         THEN [bundle EXCEPT !.tabs = Append(@, customTabNames[id])]
         ELSE bundle
    [] access.SetupEntityType = "FlexiPage" ->
         IF Truthy(MapGet(lightningPageNames, id))
         THEN [bundle EXCEPT !.lightningPages = Append(@, lightningPageNames[id])]
         ELSE bundle
    [] OTHER -> bundle

(***************************************************************************)
(* ProfileNormalizer.groupDataByProfile                                    *)
(***************************************************************************)
\* as OwnerOfParent, but a record whose ParentId has no mapping is filed under
\* the ParentId itself when that is a key of result, else under some bundle
OwnerOfParentOrAny(result, permSetToProfileMap, parentId) ==
  LET profileId == MapGetId(permSetToProfileMap, parentId) IN
  IF profileId # NoId /\ profileId \in DOMAIN result THEN profileId
  ELSE IF DOMAIN result = {} THEN NoId
  ELSE CHOOSE o \in DOMAIN result : TRUE

\* the owner a record's ParentId maps to, when it maps to a requested owner
OwnerOfParent(result, permSetToProfileMap, parentId) ==
  LET profileId == MapGetId(permSetToProfileMap, parentId) IN
  IF profileId # NoId /\ profileId \in DOMAIN result THEN profileId ELSE NoId

groupDataByProfile(profileIds, permSetToProfileMap, objectPermissions, fieldPermissions, permissionSets, setupEntityAccess, apexClassNames, apexPageNames, recordTypeNames, customTabNames, customAppNames, lightningPageNames) ==
  LET AddObj(result, objPerm) ==
        LET o == OwnerOfParent(result, permSetToProfileMap, objPerm.ParentId) IN
        IF o # NoId
        THEN [result EXCEPT ![o].objectPermissions = Append(@, objPerm)]
        ELSE result
      AddField(result, fieldPerm) ==
        LET o == OwnerOfParent(result, permSetToProfileMap, fieldPerm.ParentId) IN
        IF o # NoId
        THEN [result EXCEPT ![o].fieldPermissions = Append(@, fieldPerm)]
        ELSE result
      AddSys(result, permSet) ==
        IF permSet.ProfileId # NoId /\ permSet.ProfileId \in DOMAIN result
        THEN [result EXCEPT ![permSet.ProfileId].systemPermissions =
                               ExtractSystemPerms(permSet)]
        ELSE result
      AddAccess(result, access) ==
        LET o == OwnerOfParent(result, permSetToProfileMap, access.ParentId) IN
        IF o # NoId
        THEN [result EXCEPT ![o] =
                RouteAccessProfile(@, access, apexClassNames, apexPageNames,
                                   recordTypeNames, customTabNames,
                                   customAppNames, lightningPageNames)]
        ELSE result
      r0 == InitBundles(profileIds)
      r1 == ForEach(AddObj, r0, objectPermissions)
      r2 == ForEach(AddField, r1, fieldPermissions)
      r3 == ForEach(AddSys, r2, permissionSets)
  IN  ForEach(AddAccess, r3, setupEntityAccess)

(***************************************************************************)
(* PermissionSetNormalizer.groupDataByPermissionSet                        *)
(***************************************************************************)
groupDataByPermissionSet(permissionSetIds, objectPermissions, fieldPermissions, permissionSets, setupEntityAccess, apexClassNames, apexPageNames, recordTypeNames, customTabNames, customAppNames, lightningPageNames) ==
  LET AddObj(result, objPerm) ==
        IF objPerm.ParentId \in DOMAIN result
        THEN [result EXCEPT ![objPerm.ParentId].objectPermissions = Append(@, objPerm)]
        ELSE result
      AddField(result, fieldPerm) ==
        IF fieldPerm.ParentId \in DOMAIN result
        THEN [result EXCEPT ![fieldPerm.ParentId].fieldPermissions = Append(@, fieldPerm)]
        ELSE result
      AddSys(result, permSet) ==
        IF permSet.Id \in DOMAIN result
        THEN [result EXCEPT ![permSet.Id].systemPermissions =
                               ExtractSystemPerms(permSet)]
        ELSE result
      AddAccess(result, access) ==
        IF access.ParentId \in DOMAIN result
        THEN [result EXCEPT ![access.ParentId] =
                RouteAccessPermSet(@, access, apexClassNames, apexPageNames,
                                   recordTypeNames, customTabNames,
                                   customAppNames, lightningPageNames)]
        ELSE result
      r0 == InitBundles(permissionSetIds)
      r1 == ForEach(AddObj, r0, objectPermissions)
      r2 == ForEach(AddField, r1, fieldPermissions)
      r3 == ForEach(AddSys, r2, permissionSets)
  IN  ForEach(AddAccess, r3, setupEntityAccess)

(***************************************************************************)
(* Builders.                                                               *)
(***************************************************************************)
\* as FieldName, but taking the last segment: Field.split('.').pop() || Field
FieldNameLastSegment(Field) ==
  LET parts == Split(Field, Dot) IN
  IF Len(parts) >= 2 /\ parts[Len(parts)] # <<>> THEN parts[Len(parts)] ELSE Field

\* const fieldName = fieldPerm.Field.split('.')[1] || fieldPerm.Field
FieldName(Field) ==
  LET parts == Split(Field, Dot) IN
  IF Len(parts) >= 2 /\ parts[2] # <<>> THEN parts[2] ELSE Field

buildObjectPermission(raw) ==
  [read |-> raw.PermissionsRead, create |-> raw.PermissionsCreate,
   edit |-> raw.PermissionsEdit, delete |-> raw.PermissionsDelete,
   viewAll |-> raw.PermissionsViewAllRecords,
   modifyAll |-> raw.PermissionsModifyAllRecords]

getDefaultObjectPermission ==
  [read |-> FALSE, create |-> FALSE, edit |-> FALSE, delete |-> FALSE,
   viewAll |-> FALSE, modifyAll |-> FALSE]

\* profile mode: one object-permission record into the objects map
ObjectStepProfile(objects, objPerm) ==
  LET objectName == objPerm.SobjectType IN
  IF objectName \notin DOMAIN objects
  THEN Put(objects, objectName,
           [permissions |-> buildObjectPermission(objPerm), fields |-> EmptyMap])
  ELSE [objects EXCEPT ![objectName].permissions = buildObjectPermission(objPerm)]

\* permission-set mode: one object-permission record into the objects map
ObjectStepPermSet(objects, objPerm) ==
  Put(objects, objPerm.SobjectType,
      [permissions |->
         [read |-> objPerm.PermissionsRead, create |-> objPerm.PermissionsCreate,
          edit |-> objPerm.PermissionsEdit, delete |-> objPerm.PermissionsDelete,
          viewAll |-> objPerm.PermissionsViewAllRecords,
          modifyAll |-> objPerm.PermissionsModifyAllRecords],
       fields |-> EmptyMap])

\* the all-false literal of buildNormalizedPermissionSet
DefaultPermissionLiteral ==
  [read |-> FALSE, create |-> FALSE, edit |-> FALSE, delete |-> FALSE,
   viewAll |-> FALSE, modifyAll |-> FALSE]

\* as FieldStep, but a field of an object that has no entry yet is dropped
\* instead of creating the entry
FieldStepExistingOnly(objects, fieldPerm, dflt) ==
  IF fieldPerm.SobjectType \notin DOMAIN objects THEN objects
  ELSE [objects EXCEPT ![fieldPerm.SobjectType].fields =
          Put(@, FieldName(fieldPerm.Field),
              [read |-> fieldPerm.PermissionsRead, edit |-> fieldPerm.PermissionsEdit])]

\* as FieldStep, but a new entry takes its read flag from the field record
FieldStepReadable(objects, fieldPerm, dflt) ==
  LET objectName == fieldPerm.SobjectType
      ensured == IF objectName \notin DOMAIN objects
                 THEN Put(objects, objectName,
                          [permissions |-> [dflt EXCEPT !.read = fieldPerm.PermissionsRead],
                           fields |-> EmptyMap])
                 ELSE objects
  IN  [ensured EXCEPT ![objectName].fields =
         Put(@, FieldName(fieldPerm.Field),
             [read |-> fieldPerm.PermissionsRead, edit |-> fieldPerm.PermissionsEdit])]

\* one field-permission record into the objects map; dflt is the permissions
\* an object gets when this record is the first to mention it
FieldStep(objects, fieldPerm, dflt) ==
  LET objectName == fieldPerm.SobjectType
      fieldName == FieldName(fieldPerm.Field)
      ensured == IF objectName \notin DOMAIN objects
                 THEN Put(objects, objectName,
                          [permissions |-> dflt, fields |-> EmptyMap])
                 ELSE objects
  IN  [ensured EXCEPT ![objectName].fields =
         Put(@, fieldName, [read |-> fieldPerm.PermissionsRead,
                            edit |-> fieldPerm.PermissionsEdit])]

FieldStepProfile(objects, fieldPerm) ==
  FieldStep(objects, fieldPerm, getDefaultObjectPermission)

FieldStepPermSet(objects, fieldPerm) ==
  FieldStep(objects, fieldPerm, DefaultPermissionLiteral)

\* as AppStep, but the app is marked as the default app
AppStepDefault(appVisibilities, app) ==
  Put(appVisibilities, app, [visible |-> TRUE, default |-> TRUE])

TabStep(tabVisibilities, tab) == Put(tabVisibilities, tab, "DefaultOn")

AppStep(appVisibilities, app) ==
  Put(appVisibilities, app, [visible |-> TRUE, default |-> FALSE])

\* profileMetadataMap.get(profileId) when the map has no entry
NoMetadata == [present |-> FALSE, tabVisibilities |-> EmptyMap,
               appVisibilities |-> EmptyMap]

\* as buildNormalizedProfile, but the metadata entries are laid over the
\* fallback entries: { ...fallback, ...metadata.tabVisibilities }
buildNormalizedProfileMerging(profile, data, metadata) ==
  LET objects == ForEach(FieldStepProfile,
                         ForEach(ObjectStepProfile, EmptyMap, data.objectPermissions),
                         data.fieldPermissions)
      tabVisibilities ==
        IF metadata.present
        THEN metadata.tabVisibilities @@ ForEach(TabStep, EmptyMap, data.tabs)
        ELSE ForEach(TabStep, EmptyMap, data.tabs)
      appVisibilities ==
        IF metadata.present
        THEN metadata.appVisibilities @@ ForEach(AppStep, EmptyMap, data.apps)
        ELSE ForEach(AppStep, EmptyMap, data.apps)
  IN  [profileId |-> profile.Id,
       profileName |-> <<profile.Name>>,
       objects |-> objects,
       systemPermissions |-> data.systemPermissions,
       apexClasses |-> SortStrings(data.apexClasses),
       visualforcePages |-> SortStrings(data.visualforcePages),
       lightningPages |-> SortStrings(data.lightningPages),
       recordTypes |-> SortStrings(data.recordTypes),
       tabVisibilities |-> tabVisibilities,
       appVisibilities |-> appVisibilities,
       userPermissions |-> data.systemPermissions]

buildNormalizedProfile(profile, data, metadata) ==
  LET objects == ForEach(FieldStepProfile,
                         ForEach(ObjectStepProfile, EmptyMap, data.objectPermissions),
                         data.fieldPermissions)
      tabVisibilities ==
        IF metadata.present /\ DOMAIN metadata.tabVisibilities # {}
        THEN metadata.tabVisibilities
        ELSE ForEach(TabStep, EmptyMap, data.tabs)
      appVisibilities ==
        IF metadata.present /\ DOMAIN metadata.appVisibilities # {}
        THEN metadata.appVisibilities
        ELSE ForEach(AppStep, EmptyMap, data.apps)
  IN  [profileId |-> profile.Id,
       profileName |-> <<profile.Name>>,
       objects |-> objects,
       systemPermissions |-> data.systemPermissions,
       apexClasses |-> SortStrings(data.apexClasses),
       visualforcePages |-> SortStrings(data.visualforcePages),
       lightningPages |-> SortStrings(data.lightningPages),
       recordTypes |-> SortStrings(data.recordTypes),
       tabVisibilities |-> tabVisibilities,
       appVisibilities |-> appVisibilities,
       userPermissions |-> data.systemPermissions]

buildNormalizedPermissionSet(psInfo, data) ==
  LET objects == ForEach(FieldStepPermSet,
                         ForEach(ObjectStepPermSet, EmptyMap, data.objectPermissions),
                         data.fieldPermissions)
  IN  [profileId |-> psInfo.Id,
       profileName |-> <<"[PS] ", psInfo.Label>>,
       objects |-> objects,
       systemPermissions |-> data.systemPermissions,
       apexClasses |-> SortStrings(data.apexClasses),
       visualforcePages |-> SortStrings(data.visualforcePages),
       lightningPages |-> SortStrings(data.lightningPages),
       recordTypes |-> SortStrings(data.recordTypes),
       tabVisibilities |-> ForEach(TabStep, EmptyMap, data.tabs),
       appVisibilities |-> ForEach(AppStep, EmptyMap, data.apps),
       userPermissions |-> data.systemPermissions]

\* Step 6 of normalizeProfiles: one requested id into the output array
OutputStepProfile(profiles, profileData, profileMetadataMap, out, profileId) ==
  IF profileId \notin DOMAIN profiles THEN out
  ELSE IF profileId \notin DOMAIN profileData THEN out
  ELSE Append(out, buildNormalizedProfile(
                     profiles[profileId], profileData[profileId],
                     IF profileId \in DOMAIN profileMetadataMap
                     THEN profileMetadataMap[profileId] ELSE NoMetadata))

\* the closing loop of normalizePermissionSets
OutputStepPermSet(permSetMap, permSetData, out, psId) ==
  IF psId \notin DOMAIN permSetMap THEN out
  ELSE IF psId \notin DOMAIN permSetData THEN out
  ELSE Append(out, buildNormalizedPermissionSet(permSetMap[psId], permSetData[psId]))

(***************************************************************************)
(* The upstream org: what the Salesforce client returns when a call        *)
(* succeeds.                                                               *)
(***************************************************************************)
ProfileIds == {"P1", "P2"}
\* the permission set each profile owns (IsOwnedByProfile = true)
OwnedPermSet == [p \in ProfileIds |-> IF p = "P1" THEN "S1" ELSE "S2"]
\* permission sets a permission-set comparison may name
PermSetIds == {"S2", "S3"}

ProfileRecord(id) == [Id |-> id, Name |-> IF id = "P1" THEN "Admin" ELSE "Standard"]
PermSetInfo(id) == [Id |-> id, Name |-> id, Label |-> IF id = "S2" THEN "Sales" ELSE "Support"]

ObjPerm(parent, object, write) ==
  [ParentId |-> parent, SobjectType |-> object, PermissionsRead |-> TRUE,
   PermissionsCreate |-> write, PermissionsEdit |-> write,
   PermissionsDelete |-> write, PermissionsViewAllRecords |-> FALSE,
   PermissionsModifyAllRecords |-> write]

FieldPerm(parent, object, field, edit) ==
  [ParentId |-> parent, SobjectType |-> object, Field |-> field,
   PermissionsRead |-> TRUE, PermissionsEdit |-> edit]

Access(parent, type, id) ==
  [ParentId |-> parent, SetupEntityType |-> type, SetupEntityId |-> id]

BoolValue(b) == [type |-> "boolean", bool |-> b]
TextValue == [type |-> "string", bool |-> FALSE]

\* a PermissionSet row with its system-permission columns: Id, ProfileId and
\* Name are text, PermissionsA and PermissionsB are booleans
PermSetRow(id, profileId, a, b) ==
  [Id |-> id, ProfileId |-> profileId,
   entries |-> << [key |-> <<73, 100>>, value |-> TextValue],
                  [key |-> PermissionsPrefix \o <<65>>, value |-> BoolValue(a)],
                  [key |-> <<78, 97, 109, 101>>, value |-> TextValue],
                  [key |-> PermissionsPrefix \o <<66>>, value |-> BoolValue(b)] >>]

\* entity ids and display names
IdX == <<48, 120>>
IdY == <<48, 121>>
IdZ == <<48, 122>>
NameA == <<65>>
NameAB == <<65, 66>>
NameB == <<66>>

Catalog == (IdX :> NameB) @@ (IdY :> NameA)

BaseOrg ==
  [objectPermissions |-> << ObjPerm("S1", "Account", TRUE),
                            ObjPerm("S2", "Account", FALSE),
                            ObjPerm("S3", "Contact", FALSE) >>,
   fieldPermissions |-> << FieldPerm("S1", "Contact", <<LetterA, Dot, LetterA>>, TRUE),
                           FieldPerm("S2", "Account", <<LetterA, Dot, LetterA>>, FALSE),
                           FieldPerm("S3", "Contact", <<LetterA>>, FALSE) >>,
   permissionSets |-> << PermSetRow("S1", "P1", TRUE, FALSE),
                         PermSetRow("S2", "P2", FALSE, FALSE),
                         PermSetRow("S3", NoId, FALSE, TRUE) >>,
   setupEntityAccess |-> << Access("S1", "ApexClass", IdX),
                            Access("S1", "ApexClass", IdY),
                            Access("S2", "ApexPage", IdX),
                            Access("S2", "RecordType", IdY),
                            Access("S1", "CustomTab", IdX),
                            Access("S2", "TabSet", IdY),
                            Access("S3", "ApexClass", IdX),
                            Access("S3", "FlexiPage", IdY),
                            Access("S1", "FlexiPage", IdZ) >>,
   lightningPages |-> Catalog,
   apexClasses |-> Catalog,
   apexPages |-> Catalog,
   recordTypes |-> Catalog,
   customTabs |-> Catalog,
   customApps |-> Catalog,
   metadata |-> ("P2" :> [present |-> TRUE,
                          tabVisibilities |-> (NameA :> "Hidden"),
                          appVisibilities |-> EmptyMap])]

(***************************************************************************)
(* The normalizers as a state machine.  One normalizer object exists at a  *)
(* time; a call runs from one await to the next in one step.               *)
(***************************************************************************)
\* most calls made on one normalizer object
MaxCalls == 2

VARIABLES
  org,                  \* the upstream data of the org
  kind,                 \* which normalizer was constructed: "profile", "permset", "none"
  calls,                \* calls made on it so far
  pc,                   \* where the current call stands
  ids,                  \* profileIds / permissionSetIds of the current call
  profiles,             \* ProfileNormalizer.profiles, a field of the object
  allProfiles,          \* ids of the basic records this call's lookup returned
  permSetMap,           \* normalizePermissionSets: Id -> basic record
  profileToPermSetMap,  \* normalizeProfiles: profile id -> owned permission set id
  permSetToProfileMap,  \* the reverse mapping
  results,              \* outcome of each wave-one query, in call order
  wave1,                \* objectPermissions, fieldPermissions, permissionSets,
                        \* setupEntityAccess, lightningPageNames
  lookupIds,            \* apexClassIds, apexPageIds, flexiPageIds
  caught,               \* wave-two queries whose catch handler ran
  names,                \* the five name maps of wave two
  normalized,           \* the array the call returned
  sent,                 \* the wave queries the call has issued, in order
  lookups,              \* outcome of each wave-two query, in call order
  request,              \* the export request being served
  stage,                \* how far the export router has taken it
  response,             \* status, headers set and body sent for it
  invoked,              \* the CSV generators called for it, in order
  entered,              \* whether a route handler's body ran for it
  answered,             \* status of each request answered so far
  csvCall,              \* the last call of generateCSV: who made it and with what
  csvLines,             \* the lines array it built
  compared,             \* the entities handed to the Diff Engine
  comparisonResult,     \* the ComparisonResult it returned
  isLoading,            \* ProfileSelector: the lists are being fetched
  listedProfiles,       \* ProfileSelector: profiles
  listedPermissionSets, \* ProfileSelector: permissionSets
  viewMode,             \* ProfileSelector: viewMode
  searchQuery,          \* ProfileSelector: searchQuery
  selectedProfileIds,   \* ProfileSelector: the Set, in insertion order
  selectedPermSetIds,   \* ProfileSelector: the Set, in insertion order
  isComparing,          \* ProfileSelector: isComparing
  selectorError,        \* ProfileSelector: error
  completed,            \* onComparisonComplete was called
  compareRequests,      \* the compare requests posted so far
  storage,              \* localStorage: the item stored under HISTORY_KEY
  clock,                \* Date.now()
  saved,                \* calls of saveToHistory so far
  removals,             \* calls of deleteHistoryEntry so far
  failures,             \* writes the storage has refused so far
  historyCall,          \* the last call of the history service and its outcome
  history,              \* HistoryPanel: history
  isExpanded,           \* HistoryPanel: isExpanded
  showClearConfirm,     \* HistoryPanel: showClearConfirm
  currentOrgId,         \* HistoryPanel: the currentOrgId prop
  panelClick,           \* HistoryPanel: the last click on a row or its button
  loadedComparisons,    \* the entries onLoadComparison was called with, in order
  settledAs             \* how the promise of each wave query settled, by query

instanceVars == <<kind, calls, profiles>>
callVars == <<pc, ids, allProfiles, permSetMap, profileToPermSetMap,
              permSetToProfileMap, results, wave1, lookupIds, caught, names,
              normalized, sent, lookups>>
normalizerVars == <<org, kind, calls, pc, ids, profiles, allProfiles, permSetMap,
                    profileToPermSetMap, permSetToProfileMap, results, wave1,
                    lookupIds, caught, names, normalized, sent, lookups>>
routeVars == <<request, stage, response, invoked, entered, answered>>
generatorVars == <<csvCall, csvLines>>
engineVars == <<compared, comparisonResult>>
selectorVars == <<isLoading, listedProfiles, listedPermissionSets, viewMode,
                  searchQuery, selectedProfileIds, selectedPermSetIds, isComparing,
                  selectorError, completed, compareRequests>>
serviceVars == <<storage, clock, saved, removals, failures, historyCall>>
panelVars == <<history, isExpanded, showClearConfirm, currentOrgId, panelClick,
               loadedComparisons>>
historyVars == <<serviceVars, panelVars>>
promiseVars == <<settledAs>>
vars == <<normalizerVars, routeVars, generatorVars, engineVars, selectorVars,
          historyVars, promiseVars>>

\* what a step of a normalizer leaves alone, and what a step of the export
\* router leaves alone
outsideWaves == <<routeVars, generatorVars, engineVars, selectorVars, historyVars>>
outsideNormalizer == <<outsideWaves, promiseVars>>
outsideRoutes == <<normalizerVars, generatorVars, engineVars, selectorVars, historyVars, promiseVars>>
outsideGenerator == <<normalizerVars, routeVars, engineVars, selectorVars, historyVars, promiseVars>>
outsideEngine == <<normalizerVars, routeVars, generatorVars, selectorVars, historyVars, promiseVars>>
outsideSelector == <<normalizerVars, routeVars, generatorVars, engineVars, historyVars, promiseVars>>
outsideHistory == <<normalizerVars, routeVars, generatorVars, engineVars, selectorVars, promiseVars>>

\* an export request: the route, session.salesforce, and the comparison,
\* profiles and options of the parsed body
NoRequest ==
  [route |-> "none", salesforce |-> [present |-> FALSE, accessToken |-> Undefined],
   comparison |-> "undefined", profiles |-> "undefined",
   options |-> [present |-> FALSE, format |-> "undefined"]]

NoResponse == [status |-> 0, headers |-> EmptyMap, body |-> [kind |-> "none", text |-> ""]]

\* the export router before its first request
RouterAtRest ==
  /\ request = NoRequest
  /\ stage = "idle"
  /\ response = NoResponse
  /\ invoked = <<>>
  /\ entered = FALSE
  /\ answered = <<>>

\* no CSV has been generated yet
NoCall == [via |-> "none"]

GeneratorAtRest ==
  /\ csvCall = NoCall
  /\ csvLines = <<>>

\* nothing has been compared yet
NoComparison == [totalDifferences |-> 0 - 1]

EngineAtRest ==
  /\ compared = <<>>
  /\ comparisonResult = NoComparison

\* ProfileSelector as mounted: the useState initial values
SelectorMounted ==
  /\ isLoading = TRUE
  /\ listedProfiles = <<>>
  /\ listedPermissionSets = <<>>
  /\ viewMode = "both"
  /\ searchQuery = <<>>
  /\ selectedProfileIds = <<>>
  /\ selectedPermSetIds = <<>>
  /\ isComparing = FALSE
  /\ selectorError = "null"
  /\ completed = FALSE
  /\ compareRequests = <<>>

\* localStorage holds no history and the history service was never called
NoItem == [present |-> FALSE, text |-> <<>>]
NoHistoryCall == [op |-> "none"]

StorageEmpty ==
  /\ storage = NoItem
  /\ clock = 0
  /\ saved = 0
  /\ removals = 0
  /\ failures = 0
  /\ historyCall = NoHistoryCall

\* no click yet
NoClick == [on |-> "none"]

\* HistoryPanel as mounted over the empty storage: the useState initial
\* values, and the mount effect has read an empty history
PanelMounted ==
  /\ history = <<>>
  /\ isExpanded = FALSE
  /\ showClearConfirm = FALSE
  /\ currentOrgId = "undefined"
  /\ panelClick = NoClick
  /\ loadedComparisons = <<>>

\* the wave-one queries in the order of the Promise.allSettled array
WaveOne == 1 .. 5
\* the wave-two lookups in the order of the Promise.all array
WaveTwo == 1 .. 5

\* no promise of a wave has settled
NoneSettled == [one |-> [i \in WaveOne |-> "pending"], two |-> [j \in WaveTwo |-> "pending"]]

\* everything but the normalizers, before anything has run
OutsideNormalizerAtRest ==
  /\ RouterAtRest
  /\ GeneratorAtRest
  /\ EngineAtRest
  /\ SelectorMounted
  /\ StorageEmpty
  /\ PanelMounted
  /\ settledAs = NoneSettled


\* the declared initial values of the wave-one locals
WaveOneEmpty ==
  [objectPermissions |-> <<>>, fieldPermissions |-> <<>>, permissionSets |-> <<>>,
   setupEntityAccess |-> <<>>, lightningPageNames |-> EmptyMap]

NamesEmpty ==
  [apexClassNames |-> EmptyMap, apexPageNames |-> EmptyMap,
   recordTypeNames |-> EmptyMap, customTabNames |-> EmptyMap,
   customAppNames |-> EmptyMap]

NoLookupIds == [apexClassIds |-> <<>>, apexPageIds |-> <<>>, flexiPageIds |-> <<>>]

\* all id sequences of length at most n over the set S
RECURSIVE SeqsUpTo(_, _)
SeqsUpTo(S, n) ==
  IF n = 0 THEN {<<>>}
  ELSE LET shorter == SeqsUpTo(S, n - 1) IN
       shorter \cup {Append(q, x) : q \in shorter, x \in S}

Restrict(m, keys) == [k \in DOMAIN m \cap keys |-> m[k]]

\* setupEntityAccess.filter(e => e.SetupEntityType === type).map(e => e.SetupEntityId)
RECURSIVE IdsOfType(_, _)
IdsOfType(access, type) ==
  IF access = <<>> THEN <<>>
  ELSE IF Head(access).SetupEntityType = type
       THEN <<Head(access).SetupEntityId>> \o IdsOfType(Tail(access), type)
       ELSE IdsOfType(Tail(access), type)

\* Array.from(map.values()): the values of a map, one for each key
RECURSIVE ValuesFrom(_, _)
ValuesFrom(m, keys) ==
  IF keys = {} THEN <<>>
  ELSE LET k == CHOOSE x \in keys : TRUE
       IN  <<m[k]>> \o ValuesFrom(m, keys \ {k})

ValuesOf(m) == ValuesFrom(m, DOMAIN m)

\* the five calls in the array passed to Promise.allSettled, made one after
\* the other while the array is built; the first four take permissionSetIds
WaveOneIssued(permissionSetIds) ==
  [i \in WaveOne |->
     [wave |-> 1, query |-> i, arg |-> IF i = 5 THEN <<>> ELSE permissionSetIds]]

\* the five calls in the array passed to Promise.all; the first two take the
\* apex-class and the VF-page id list
WaveTwoIssued(lk) ==
  [j \in WaveTwo |->
     [wave |-> 2, query |-> j,
      arg |-> IF j = 1 THEN lk.apexClassIds
              ELSE IF j = 2 THEN lk.apexPageIds ELSE <<>>]]

\* the outcome of each wave-two query when those in failed rejected
LookupOutcomes(failed) ==
  [j \in WaveTwo |-> IF j \in failed THEN "rejected" ELSE "fulfilled"]

LocalsAtEntry ==
  /\ allProfiles = {}
  /\ permSetMap = EmptyMap
  /\ profileToPermSetMap = EmptyMap
  /\ permSetToProfileMap = EmptyMap
  /\ results = [i \in WaveOne |-> "pending"]
  /\ wave1 = WaveOneEmpty
  /\ lookupIds = NoLookupIds
  /\ caught = {}
  /\ names = NamesEmpty
  /\ normalized = <<>>
  /\ sent = <<>>
  /\ lookups = [j \in WaveTwo |-> "pending"]

\* a call starts with its locals at their declared initial values
EnterLocals ==
  /\ allProfiles' = {}
  /\ permSetMap' = EmptyMap
  /\ profileToPermSetMap' = EmptyMap
  /\ permSetToProfileMap' = EmptyMap
  /\ results' = [i \in WaveOne |-> "pending"]
  /\ wave1' = WaveOneEmpty
  /\ lookupIds' = NoLookupIds
  /\ caught' = {}
  /\ names' = NamesEmpty
  /\ normalized' = <<>>
  /\ sent' = <<>>
  /\ lookups' = [j \in WaveTwo |-> "pending"]
  /\ settledAs' = NoneSettled

Resting == pc \in {"idle", "done", "rejected"}

\* new ProfileNormalizer(session) / new PermissionSetNormalizer(session)
Construct(k) ==
  /\ Resting
  /\ kind' = k
  /\ calls' = 0
  /\ profiles' = EmptyMap
  /\ pc' = "idle"
  /\ ids' = <<>>
  /\ EnterLocals
  /\ UNCHANGED <<org, outsideWaves>>

\* normalizeProfiles(profileIds) / normalizePermissionSets(permissionSetIds)
\* up to the await of the basic-record lookup
Normalize(idSeq) ==
  /\ Resting
  /\ kind # "none"
  /\ calls < MaxCalls
  /\ calls' = calls + 1
  /\ ids' = idSeq
  /\ pc' = "basic"
  /\ EnterLocals
  /\ UNCHANGED <<org, kind, profiles, outsideWaves>>

\* the awaited call rejected and nothing catches it: the call rejects and
\* its locals are gone
Reject ==
  /\ pc' = "rejected"
  /\ EnterLocals
  /\ UNCHANGED <<org, kind, calls, profiles, ids, outsideWaves>>

\* getAllProfiles() returned the basic records of the profiles in found
AllProfilesFulfilled(found) ==
  /\ pc = "basic" /\ kind = "profile"
  /\ allProfiles' = found
  /\ profiles' = [id \in DOMAIN profiles \cup found |->
                    IF id \in found THEN ProfileRecord(id) ELSE profiles[id]]
  /\ pc' = "owner"
  /\ UNCHANGED <<org, kind, calls, ids, permSetMap, profileToPermSetMap,
                 permSetToProfileMap, results, wave1, lookupIds, caught, names,
                 normalized, sent, lookups, outsideNormalizer>>

AllProfilesRejected == pc = "basic" /\ kind = "profile" /\ Reject

\* getProfilePermissionSetIds(profileIds) returned the owned permission set
\* of the profiles in mapped
OwnerMapFulfilled(mapped) ==
  /\ pc = "owner"
  /\ profileToPermSetMap' = [p \in mapped |-> OwnedPermSet[p]]
  /\ permSetToProfileMap' =
       [s \in {OwnedPermSet[p] : p \in mapped} |->
          CHOOSE p \in mapped : OwnedPermSet[p] = s]
  /\ sent' = sent \o WaveOneIssued(ValuesOf([p \in mapped |-> OwnedPermSet[p]]))
  /\ pc' = "wave1"
  /\ UNCHANGED <<org, kind, calls, profiles, ids, allProfiles, permSetMap,
                 results, wave1, lookupIds, caught, names, normalized, lookups,
                 outsideNormalizer>>

OwnerMapRejected == pc = "owner" /\ Reject

\* the PermissionSet query of normalizePermissionSets returned the rows of
\* the requested ids in found
PermSetQueryFulfilled(found) ==
  /\ pc = "basic" /\ kind = "permset"
  /\ allProfiles' = found
  /\ permSetMap' = [id \in found |-> PermSetInfo(id)]
  /\ sent' = sent \o WaveOneIssued(ids)
  /\ pc' = "wave1"
  /\ UNCHANGED <<org, kind, calls, profiles, ids, profileToPermSetMap,
                 permSetToProfileMap, results, wave1, lookupIds, caught, names,
                 normalized, lookups, outsideNormalizer>>

PermSetQueryRejected == pc = "basic" /\ kind = "permset" /\ Reject

\* what wave-one query i resolves with
WaveOneValue(i) ==
  CASE i = 1 -> org.objectPermissions
    [] i = 2 -> org.fieldPermissions
    [] i = 3 -> org.permissionSets
    [] i = 4 -> org.setupEntityAccess
    [] i = 5 -> org.lightningPages

\* as WaveOneLocals, but one rejected query discards all five results (the
\* behaviour of a single try/catch around Promise.all)
WaveOneAllOrNothing(failed) ==
  IF failed = {}
  THEN [objectPermissions |-> WaveOneValue(1), fieldPermissions |-> WaveOneValue(2),
        permissionSets |-> WaveOneValue(3), setupEntityAccess |-> WaveOneValue(4),
        lightningPageNames |-> WaveOneValue(5)]
  ELSE WaveOneEmpty

\* as WaveOneLocals, but the object- and field-permission results are taken
\* together: one of the two rejecting leaves both locals empty
WaveOnePermissionsTogether(failed) ==
  [objectPermissions |-> IF 1 \in failed \/ 2 \in failed THEN WaveOneEmpty.objectPermissions
                         ELSE WaveOneValue(1),
   fieldPermissions |-> IF 1 \in failed \/ 2 \in failed THEN WaveOneEmpty.fieldPermissions
                        ELSE WaveOneValue(2),
   permissionSets |-> IF 3 \in failed THEN WaveOneEmpty.permissionSets
                      ELSE WaveOneValue(3),
   setupEntityAccess |-> IF 4 \in failed THEN WaveOneEmpty.setupEntityAccess
                         ELSE WaveOneValue(4),
   lightningPageNames |-> IF 5 \in failed THEN WaveOneEmpty.lightningPageNames
                          ELSE WaveOneValue(5)]

\* the wave-one locals once the five queries have settled, those in failed
\* by rejecting: a fulfilled query's value is assigned, a rejected one leaves
\* the local at its initial value
WaveOneLocals(failed) ==
  [objectPermissions |-> IF 1 \in failed THEN WaveOneEmpty.objectPermissions
                         ELSE WaveOneValue(1),
   fieldPermissions |-> IF 2 \in failed THEN WaveOneEmpty.fieldPermissions
                        ELSE WaveOneValue(2),
   permissionSets |-> IF 3 \in failed THEN WaveOneEmpty.permissionSets
                      ELSE WaveOneValue(3),
   setupEntityAccess |-> IF 4 \in failed THEN WaveOneEmpty.setupEntityAccess
                         ELSE WaveOneValue(4),
   lightningPageNames |-> IF 5 \in failed THEN WaveOneEmpty.lightningPageNames
                          ELSE WaveOneValue(5)]

\* the id lists computed from setupEntityAccess before wave two
LookupIdsOf(k, setupEntityAccess) ==
  [apexClassIds |-> IdsOfType(setupEntityAccess, "ApexClass"),
   apexPageIds |-> IdsOfType(setupEntityAccess, "ApexPage"),
   flexiPageIds |-> IF k = "profile" THEN IdsOfType(setupEntityAccess, "FlexiPage")
                    ELSE <<>>]

\* the five wave-one queries have settled, those in failed by rejecting:
\* the code from the await to the await of wave two
WaveOneSettled(failed) ==
  /\ pc = "wave1"
  /\ results' = [i \in WaveOne |-> IF i \in failed THEN "rejected" ELSE "fulfilled"]
  /\ wave1' = WaveOneLocals(failed)
  /\ lookupIds' = LookupIdsOf(kind, WaveOneLocals(failed).setupEntityAccess)
  /\ sent' = sent \o WaveTwoIssued(LookupIdsOf(kind, WaveOneLocals(failed).setupEntityAccess))
  /\ pc' = "wave2"
  /\ UNCHANGED <<org, kind, calls, profiles, ids, allProfiles, permSetMap,
                 profileToPermSetMap, permSetToProfileMap, caught, names,
                 normalized, lookups, outsideNormalizer>>

\* what wave-two lookup j resolves with, given the id lists passed to it
WaveTwoValue(j, lk) ==
  CASE j = 1 -> Restrict(org.apexClasses, Range(lk.apexClassIds))
    [] j = 2 -> Restrict(org.apexPages, Range(lk.apexPageIds))
    [] j = 3 -> org.recordTypes
    [] j = 4 -> org.customTabs
    [] j = 5 -> org.customApps

\* as NamesAfter, but one rejected lookup empties all five maps
NamesAllOrNothing(failed, lk) ==
  [apexClassNames |-> IF failed # {} THEN EmptyMap ELSE WaveTwoValue(1, lk),
   apexPageNames |-> IF failed # {} THEN EmptyMap ELSE WaveTwoValue(2, lk),
   recordTypeNames |-> IF failed # {} THEN EmptyMap ELSE WaveTwoValue(3, lk),
   customTabNames |-> IF failed # {} THEN EmptyMap ELSE WaveTwoValue(4, lk),
   customAppNames |-> IF failed # {} THEN EmptyMap ELSE WaveTwoValue(5, lk)]

\* the name maps once the five lookups have settled: .catch(() => new Map())
\* turns a rejected lookup into an empty map
NamesAfter(failed, lk) ==
  [apexClassNames |-> IF 1 \in failed THEN EmptyMap ELSE WaveTwoValue(1, lk),
   apexPageNames |-> IF 2 \in failed THEN EmptyMap ELSE WaveTwoValue(2, lk),
   recordTypeNames |-> IF 3 \in failed THEN EmptyMap ELSE WaveTwoValue(3, lk),
   customTabNames |-> IF 4 \in failed THEN EmptyMap ELSE WaveTwoValue(4, lk),
   customAppNames |-> IF 5 \in failed THEN EmptyMap ELSE WaveTwoValue(5, lk)]

\* Steps 5 and 6 of normalizeProfiles
FinishProfiles(profileIds, cache, reverseMap, w1, nm, profileMetadataMap) ==
  LET profileData ==
        groupDataByProfile(profileIds, reverseMap, w1.objectPermissions,
                           w1.fieldPermissions, w1.permissionSets,
                           w1.setupEntityAccess, nm.apexClassNames,
                           nm.apexPageNames, nm.recordTypeNames,
                           nm.customTabNames, nm.customAppNames,
                           w1.lightningPageNames)
      Step(out, profileId) ==
        OutputStepProfile(cache, profileData, profileMetadataMap, out, profileId)
  IN  ForEach(Step, <<>>, profileIds)

\* the grouping and the closing loop of normalizePermissionSets
FinishPermSets(permissionSetIds, psMap, w1, nm) ==
  LET permSetData ==
        groupDataByPermissionSet(permissionSetIds, w1.objectPermissions,
                                 w1.fieldPermissions, w1.permissionSets,
                                 w1.setupEntityAccess, nm.apexClassNames,
                                 nm.apexPageNames, nm.recordTypeNames,
                                 nm.customTabNames, nm.customAppNames,
                                 w1.lightningPageNames)
      Step(out, psId) == OutputStepPermSet(psMap, permSetData, out, psId)
  IN  ForEach(Step, <<>>, permissionSetIds)

\* as WaveTwoSettled, but the lookups have no catch handler: one rejected
\* lookup rejects Promise.all and with it the call
WaveTwoWithoutCatch(failed) ==
  /\ pc = "wave2"
  /\ IF failed # {}
     THEN Reject
     ELSE /\ caught' = failed
          /\ names' = NamesAfter(failed, lookupIds)
          /\ IF kind = "profile"
             THEN pc' = "meta" /\ UNCHANGED normalized
             ELSE /\ pc' = "done"
                  /\ normalized' = FinishPermSets(ids, permSetMap, wave1,
                                                  NamesAfter(failed, lookupIds))
          /\ lookups' = LookupOutcomes(failed)
          /\ UNCHANGED <<org, kind, calls, profiles, ids, allProfiles, permSetMap,
                         profileToPermSetMap, permSetToProfileMap, results, wave1,
                         lookupIds, sent, outsideNormalizer>>

\* the five wave-two lookups have settled, those in failed through their
\* catch handler; normalizeProfiles goes on to await the profile metadata,
\* normalizePermissionSets groups, builds and returns
WaveTwoSettled(failed) ==
  /\ pc = "wave2"
  /\ caught' = failed
  /\ names' = NamesAfter(failed, lookupIds)
  /\ IF kind = "profile"
     THEN pc' = "meta" /\ UNCHANGED normalized
     ELSE /\ pc' = "done"
          /\ normalized' = FinishPermSets(ids, permSetMap, wave1,
                                          NamesAfter(failed, lookupIds))
  /\ lookups' = LookupOutcomes(failed)
  /\ UNCHANGED <<org, kind, calls, profiles, ids, allProfiles, permSetMap,
                 profileToPermSetMap, permSetToProfileMap, results, wave1,
                 lookupIds, sent, outsideNormalizer>>

\* what getProfileMetadata(profileIds) resolves with
MetadataValue(profileIds) == Restrict(org.metadata, Range(profileIds))

\* getProfileMetadata(profileIds) returned; group, build and return
MetadataFulfilled ==
  /\ pc = "meta"
  /\ normalized' = FinishProfiles(ids, profiles, permSetToProfileMap, wave1,
                                  names, MetadataValue(ids))
  /\ pc' = "done"
  /\ UNCHANGED <<org, kind, calls, profiles, ids, allProfiles, permSetMap,
                 profileToPermSetMap, permSetToProfileMap, results, wave1,
                 lookupIds, caught, names, sent, lookups, outsideNormalizer>>

MetadataRejected == pc = "meta" /\ Reject

Orgs == {BaseOrg}

Init ==
  /\ org \in Orgs
  /\ kind = "none"
  /\ calls = 0
  /\ profiles = EmptyMap
  /\ pc = "idle"
  /\ ids = <<>>
  /\ LocalsAtEntry
  /\ OutsideNormalizerAtRest

Next ==
  \/ \E k \in {"profile", "permset"} : Construct(k)
  \/ \E idSeq \in SeqsUpTo(IF kind = "profile" THEN ProfileIds ELSE PermSetIds, MaxIds) :
       Normalize(idSeq)
  \/ \E found \in SUBSET ProfileIds : AllProfilesFulfilled(found)
  \/ AllProfilesRejected
  \/ \E mapped \in SUBSET (Range(ids) \cap ProfileIds) : OwnerMapFulfilled(mapped)
  \/ OwnerMapRejected
  \/ \E found \in SUBSET (Range(ids) \cap PermSetIds) : PermSetQueryFulfilled(found)
  \/ PermSetQueryRejected
  \/ \E failed \in SUBSET WaveOne : WaveOneSettled(failed)
  \/ \E failed \in SUBSET WaveTwo : WaveTwoSettled(failed)
  \/ MetadataFulfilled
  \/ MetadataRejected

Spec == Init /\ [][Next]_vars

(***************************************************************************)
(* A call repeated on the same object: the same id sequence, and every     *)
(* upstream call answers as it did in the call that has just returned.     *)
(***************************************************************************)
\* as NewOutput, but the array is kept on the object and not emptied
KeptOutput(previous) == previous

\* const normalizedProfiles: NormalizedProfile[] = [] whatever an earlier
\* call returned
NewOutput(previous) == <<>>

\* the whole second call, from its entry to its return
NormalizeAgain ==
  LET found == allProfiles
      cache == IF kind = "profile"
               THEN [id \in DOMAIN profiles \cup found |->
                       IF id \in found THEN ProfileRecord(id) ELSE profiles[id]]
               ELSE profiles
      psMap == IF kind = "permset" THEN [id \in found |-> PermSetInfo(id)]
               ELSE EmptyMap
      mapped == DOMAIN profileToPermSetMap
      reverseMap == [s \in {OwnedPermSet[p] : p \in mapped} |->
                       CHOOSE p \in mapped : OwnedPermSet[p] = s]
      failed == {i \in WaveOne : results[i] = "rejected"}
      w1 == WaveOneLocals(failed)
      lk == LookupIdsOf(kind, w1.setupEntityAccess)
      nm == NamesAfter(caught, lk)
  IN  /\ pc = "done"
      /\ calls < MaxCalls
      /\ calls' = calls + 1
      /\ profiles' = cache
      /\ permSetMap' = psMap
      /\ profileToPermSetMap' = [p \in mapped |-> OwnedPermSet[p]]
      /\ permSetToProfileMap' = reverseMap
      /\ wave1' = w1
      /\ lookupIds' = lk
      /\ names' = nm
      /\ normalized' =
           NewOutput(normalized) \o
             (IF kind = "profile"
              THEN FinishProfiles(ids, cache, reverseMap, w1, nm, MetadataValue(ids))
              ELSE FinishPermSets(ids, psMap, w1, nm))
      /\ sent' = WaveOneIssued(IF kind = "profile"
                               THEN ValuesOf([p \in mapped |-> OwnedPermSet[p]])
                               ELSE ids) \o WaveTwoIssued(lk)
      /\ lookups' = LookupOutcomes(caught)
      /\ pc' = "done"
      /\ UNCHANGED <<org, kind, ids, allProfiles, results, caught,
                     outsideNormalizer>>

NextRepeat == Next \/ NormalizeAgain

SpecRepeat == Init /\ [][NextRepeat]_vars

(***************************************************************************)
(* The two waves query by query: each promise of a wave settles on its own *)
(* and the call resumes from the await when the combined promise settles.  *)
(* One call is made on each object and the lookups before wave one return  *)
(* every record asked for.                                                 *)
(***************************************************************************)
\* as AllSettled, but the combined promise settles with its first element
AnySettled(outcomes) == \E i \in DOMAIN outcomes : outcomes[i] # "pending"

\* Promise.allSettled(array), and Promise.all(array) over promises that
\* cannot reject: settles when every element has settled
AllSettled(outcomes) == \A i \in DOMAIN outcomes : outcomes[i] # "pending"

\* as WaveOneQuerySettled, but the outcomes fill the results array in the
\* order in which the promises settle
WaveOneQuerySettledInArrivalOrder(i, outcome) ==
  /\ pc = "wave1"
  /\ settledAs.one[i] = "pending"
  /\ LET slot == Cardinality({k \in WaveOne : results[k] # "pending"}) + 1
     IN results' = [results EXCEPT ![slot] = outcome]
  /\ settledAs' = [settledAs EXCEPT !.one[i] = outcome]
  /\ UNCHANGED <<org, kind, calls, pc, ids, profiles, allProfiles, permSetMap,
                 profileToPermSetMap, permSetToProfileMap, wave1, lookupIds,
                 caught, names, normalized, sent, lookups, outsideWaves>>

\* the promise of wave-one query i settles
WaveOneQuerySettled(i, outcome) ==
  /\ pc = "wave1"
  /\ results[i] = "pending"
  /\ results' = [results EXCEPT ![i] = outcome]
  /\ settledAs' = [settledAs EXCEPT !.one[i] = outcome]
  /\ UNCHANGED <<org, kind, calls, pc, ids, profiles, allProfiles, permSetMap,
                 profileToPermSetMap, permSetToProfileMap, wave1, lookupIds,
                 caught, names, normalized, sent, lookups, outsideWaves>>

\* the await of wave one returns
WaveOneResumed ==
  /\ AllSettled(results)
  /\ WaveOneSettled({i \in WaveOne : results[i] = "rejected"})

\* the promise of wave-two lookup j settles
WaveTwoLookupSettled(j, outcome) ==
  /\ pc = "wave2"
  /\ lookups[j] = "pending"
  /\ lookups' = [lookups EXCEPT ![j] = outcome]
  /\ settledAs' = [settledAs EXCEPT !.two[j] = outcome]
  /\ UNCHANGED <<org, kind, calls, pc, ids, profiles, allProfiles, permSetMap,
                 profileToPermSetMap, permSetToProfileMap, results, wave1,
                 lookupIds, caught, names, normalized, sent, outsideWaves>>

\* the await of wave two returns
WaveTwoResumed ==
  /\ AllSettled(lookups)
  /\ WaveTwoSettled({j \in WaveTwo : lookups[j] = "rejected"})

NextWaves ==
  \/ \E k \in {"profile", "permset"} : Construct(k)
  \/ \E idSeq \in SeqsUpTo(IF kind = "profile" THEN ProfileIds ELSE PermSetIds, MaxIds) :
       calls = 0 /\ Normalize(idSeq)
  \/ AllProfilesFulfilled(ProfileIds)
  \/ AllProfilesRejected
  \/ OwnerMapFulfilled(Range(ids) \cap ProfileIds)
  \/ OwnerMapRejected
  \/ PermSetQueryFulfilled(Range(ids) \cap PermSetIds)
  \/ PermSetQueryRejected
  \/ \E i \in WaveOne, outcome \in {"fulfilled", "rejected"} :
       WaveOneQuerySettled(i, outcome)
  \/ WaveOneResumed
  \/ \E j \in WaveTwo, outcome \in {"fulfilled", "rejected"} :
       WaveTwoLookupSettled(j, outcome)
  \/ WaveTwoResumed
  \/ MetadataFulfilled
  \/ MetadataRejected

SpecWaves == Init /\ [][NextWaves]_vars

(***************************************************************************)
(* The export router (backend/src/routes/export.routes.ts).  A request     *)
(* passes requireAuth and then the handler of its route; each runs to its  *)
(* end in one step.  A field of the parsed body is "undefined" (absent),   *)
(* "null", "false", "data" (a document of the declared type) or "other"    *)
(* (another truthy value).                                                 *)
(***************************************************************************)
MaxRequests == 2

BodyValues == {"undefined", "null", "false", "data", "other"}

Formats == {"detailed", "summary", "differences", "undefined", "other"}

OptionValues ==
  {[present |-> FALSE, format |-> "undefined"]} \cup
  {[present |-> TRUE, format |-> f] : f \in Formats}

SessionValues ==
  {[present |-> FALSE, accessToken |-> Undefined]} \cup
  {[present |-> TRUE, accessToken |-> t] : t \in {Undefined, <<>>, <<LetterA>>}}

Requests ==
  [route : {"csv", "json"}, salesforce : SessionValues, comparison : BodyValues,
   profiles : BodyValues, options : OptionValues]

\* JavaScript truthiness of a body field
TruthyField(v) == v \notin {"undefined", "null", "false"}

\* req.session.salesforce?.accessToken
AccessTokenOf(salesforce) ==
  IF salesforce.present THEN salesforce.accessToken ELSE Undefined

\* as Authenticated, but a session that has a salesforce entry passes
HasSalesforceEntry(req) == req.salesforce.present

\* the negation of the test of requireAuth
Authenticated(req) == Truthy(AccessTokenOf(req.salesforce))

\* as MissingData, but only a body that lacks both is turned away
MissingBoth(comparison, profileList) ==
  ~TruthyField(comparison) /\ ~TruthyField(profileList)

\* !comparison || !profiles
MissingData(comparison, profileList) ==
  ~TruthyField(comparison) \/ ~TruthyField(profileList)

\* res.status(code).json({ error: text })
JsonError(code, text) ==
  [status |-> code, headers |-> EmptyMap, body |-> [kind |-> "error", text |-> text]]

\* the generator the switch on options.format calls
GeneratorFor(format) ==
  CASE format = "detailed" -> "generateDetailedCSV"
    [] format = "summary" -> "generateSummaryCSV"
    [] OTHER -> "generateCSV"

\* the file name of the download, the date left out
FilenameFor(format) ==
  CASE format = "detailed" -> "profile-comparison-detailed.csv"
    [] format = "summary" -> "profile-comparison-summary.csv"
    [] OTHER -> "profile-comparison-differences.csv"

\* whether the generator throws: generateDetailedCSV reads its profiles,
\* the other two read the comparison and nothing of profiles
Throws(generator, req) ==
  IF generator = "generateDetailedCSV" THEN req.profiles # "data"
  ELSE req.comparison # "data"

\* the two setHeader calls of a download
DownloadHeaders(type, filename) ==
  ("Content-Type" :> type) @@ ("Content-Disposition" :> filename)

\* the handler of POST /csv: the response and the generators it called
PostCsvResult(req) ==
  IF MissingData(req.comparison, req.profiles)
  THEN [response |-> JsonError(400, "Comparison data is required"), invoked |-> <<>>]
  ELSE IF ~req.options.present
  THEN [response |-> JsonError(500, "Failed to generate export"), invoked |-> <<>>]
  ELSE LET generator == GeneratorFor(req.options.format) IN
       IF Throws(generator, req)
       THEN [response |-> JsonError(500, "Failed to generate export"),
             invoked |-> <<generator>>]
       ELSE [response |->
               [status |-> 200,
                headers |-> DownloadHeaders("text/csv", FilenameFor(req.options.format)),
                body |-> [kind |-> "csv", text |-> generator]],
             invoked |-> <<generator>>]

\* the handler of POST /json
PostJsonResult(req) ==
  IF MissingData(req.comparison, req.profiles)
  THEN [response |-> JsonError(400, "Comparison data is required"), invoked |-> <<>>]
  ELSE [response |->
          [status |-> 200,
           headers |-> DownloadHeaders("application/json", "profile-comparison.json"),
           body |-> [kind |-> "export", text |-> "comparison, profiles, exportedAt"]],
        invoked |-> <<>>]

\* a request reaches the router
Receive(req) ==
  /\ stage \in {"idle", "sent"}
  /\ Len(answered) < MaxRequests
  /\ request' = req
  /\ stage' = "auth"
  /\ response' = NoResponse
  /\ invoked' = <<>>
  /\ entered' = FALSE
  /\ UNCHANGED <<answered, outsideRoutes>>

\* router.use(requireAuth): answer 401 or call next()
requireAuth ==
  /\ stage = "auth"
  /\ IF ~Authenticated(request)
     THEN /\ response' = JsonError(401, "Authentication required")
          /\ answered' = Append(answered, 401)
          /\ stage' = "sent"
     ELSE /\ stage' = "handler"
          /\ UNCHANGED <<response, answered>>
  /\ UNCHANGED <<request, invoked, entered, outsideRoutes>>

\* router.post('/csv', ...)
PostCsv ==
  /\ stage = "handler" /\ request.route = "csv"
  /\ entered' = TRUE
  /\ response' = PostCsvResult(request).response
  /\ invoked' = PostCsvResult(request).invoked
  /\ answered' = Append(answered, PostCsvResult(request).response.status)
  /\ stage' = "sent"
  /\ UNCHANGED <<request, outsideRoutes>>

\* router.post('/json', ...)
PostJson ==
  /\ stage = "handler" /\ request.route = "json"
  /\ entered' = TRUE
  /\ response' = PostJsonResult(request).response
  /\ invoked' = PostJsonResult(request).invoked
  /\ answered' = Append(answered, PostJsonResult(request).response.status)
  /\ stage' = "sent"
  /\ UNCHANGED <<request, outsideRoutes>>

NextExport ==
  \/ \E req \in Requests : Receive(req)
  \/ requireAuth
  \/ PostCsv
  \/ PostJson

SpecExport == Init /\ [][NextExport]_vars

(***************************************************************************)
(* generateCSV (backend/src/services/export.service.ts) and the branch of  *)
(* POST /csv that calls it.  A JavaScript value of a document is written   *)
(* as a string: "true" and "false" are the booleans, "undefined" and       *)
(* "null" the two absent values, any other string is itself.  The result   *)
(* is the lines array, one tuple of cells for each line, before the cells  *)
(* are escaped and the lines joined.  One call is made in a run.           *)
(***************************************************************************)
MaxDiffs == 3

DiffTypes == {"added", "removed", "changed", "unchanged"}

\* the values mapping of a DiffItem of each diffType, for entities A and B
ValuesOfType(diffType) ==
  CASE diffType = "unchanged" -> ("A" :> "true") @@ ("B" :> "true")
    [] diffType = "changed" -> ("A" :> "false") @@ ("B" :> "true")
    [] diffType = "added" -> ("A" :> "undefined") @@ ("B" :> "true")
    [] diffType = "removed" -> ("A" :> "true") @@ ("B" :> "undefined")

\* a DiffItem of the category and diffType
DiffItemOf(category, diffType) ==
  [category |-> category,
   objectName |-> IF category = "apexClass" THEN "undefined" ELSE "Account",
   fieldName |-> IF category = "fieldPermission" THEN "Name" ELSE "undefined",
   permissionName |-> IF category = "apexClass" THEN "Foo" ELSE "read",
   diffType |-> diffType,
   values |-> ValuesOfType(diffType)]

DiffItems ==
  {DiffItemOf(c, t) : c \in {"fieldPermission", "apexClass"}, t \in DiffTypes}

ComparedProfiles == <<[id |-> "A", name |-> "Admin"], [id |-> "B", name |-> "Basic"]>>

Comparisons ==
  {[profiles |-> ComparedProfiles, differences |-> d] : d \in SeqsUpTo(DiffItems, MaxDiffs)}

\* options.categories: absent, or an array of category names
CategoryLists ==
  {[present |-> FALSE, list |-> <<>>]} \cup
  {[present |-> TRUE, list |-> l] : l \in {<<>>, <<"all">>, <<"apexClass">>,
                                          <<"apexClass", "all">>}}

\* JavaScript truthiness of a value of a document
TruthyValue(v) == v \notin {"undefined", "null", "false", ""}

\* a ?? b
Coalesce(a, b) == IF a \in {"undefined", "null"} THEN b ELSE a

\* a || b
OrElse(a, b) == IF TruthyValue(a) THEN a ELSE b

formatValue(value) ==
  IF value \in {"true", "false"} THEN (IF value = "true" THEN "Yes" ELSE "No")
  ELSE IF value \in {"null", "undefined"} THEN ""
  ELSE value

categoryNames ==
  [objectPermission |-> "Object Permission", fieldPermission |-> "Field Permission",
   systemPermission |-> "System Permission", apexClass |-> "Apex Class",
   visualforcePage |-> "Visualforce Page", lightningPage |-> "Lightning Page",
   recordType |-> "Record Type", tabVisibility |-> "Tab Visibility",
   appVisibility |-> "App Visibility"]

formatCategory(category) ==
  IF category \in DOMAIN categoryNames THEN categoryNames[category] ELSE category

\* as DropUnchanged, but the filter is applied whatever the option says
DropUnchangedAlways(diffs, options) ==
  LET Changed(d) == d.diffType # "unchanged" IN SelectSeq(diffs, Changed)

\* if (!options.includeUnchanged) diffs = diffs.filter(d => d.diffType !== 'unchanged')
DropUnchanged(diffs, options) ==
  LET Changed(d) == d.diffType # "unchanged"
  IN  IF ~TruthyValue(options.includeUnchanged) THEN SelectSeq(diffs, Changed) ELSE diffs

\* the category filter: applied when categories is a non-empty array
\* without 'all'
KeepCategories(diffs, options) ==
  LET InList(d) == d.category \in Range(options.categories.list)
  IN  IF /\ options.categories.present
         /\ Len(options.categories.list) > 0
         /\ "all" \notin Range(options.categories.list)
      THEN SelectSeq(diffs, InList)
      ELSE diffs

\* the header row
HeaderRow(comparison) ==
  <<"Category", "Object", "Field/Permission", "Diff Type">> \o
    [n \in DOMAIN comparison.profiles |-> comparison.profiles[n].name]

\* the row of one DiffItem
DataRow(comparison, diff) ==
  <<formatCategory(diff.category),
    OrElse(diff.objectName, ""),
    IF TruthyValue(diff.fieldName) THEN diff.fieldName \o "." \o diff.permissionName
    ELSE OrElse(diff.permissionName, ""),
    diff.diffType>> \o
    [n \in DOMAIN comparison.profiles |->
       formatValue(diff.values[comparison.profiles[n].id])]

\* the loop that pushes one row for each remaining DiffItem
RECURSIVE PushRows(_, _, _)
PushRows(lines, comparison, diffs) ==
  IF diffs = <<>> THEN lines
  ELSE PushRows(Append(lines, DataRow(comparison, Head(diffs))), comparison, Tail(diffs))

generateCSV(comparison, options) ==
  LET diffs == KeepCategories(DropUnchanged(comparison.differences, options), options)
  IN  PushRows(<<HeaderRow(comparison)>>, comparison, diffs)

\* generateCSV called by other code, with a complete ExportOptions
GenerateCsv(comparison, options) ==
  /\ csvCall = NoCall
  /\ csvCall' = [via |-> "direct", comparison |-> comparison, options |-> options]
  /\ csvLines' = generateCSV(comparison, options)
  /\ UNCHANGED outsideGenerator

\* the options POST /csv hands to generateCSV
RouteOptions(options) ==
  [format |-> "csv",
   includeUnchanged |-> Coalesce(options.includeUnchanged, "false"),
   categories |-> options.categories]

\* case 'differences' and default of POST /csv, the body's options given
ExportDifferences(comparison, options) ==
  /\ csvCall = NoCall
  /\ csvCall' = [via |-> "route", comparison |-> comparison, body |-> options,
                 options |-> RouteOptions(options)]
  /\ csvLines' = generateCSV(comparison, RouteOptions(options))
  /\ UNCHANGED outsideGenerator

NextCsv ==
  \/ /\ csvCall = NoCall
     /\ \E comparison \in Comparisons, u \in {"true", "false"}, c \in CategoryLists :
          GenerateCsv(comparison, [format |-> "csv", includeUnchanged |-> u,
                                   categories |-> c])
  \/ /\ csvCall = NoCall
     /\ \E comparison \in Comparisons, u \in {"true", "false", "undefined", "null"},
           c \in CategoryLists :
          ExportDifferences(comparison, [format |-> "differences",
                                         includeUnchanged |-> u, categories |-> c])

SpecCsv == Init /\ [][NextCsv]_vars

(***************************************************************************)
(* The Diff Engine.  Its source is not part of the repository text; it is  *)
(* modelled from its contract: compare(entities) computes the union of the *)
(* addressable paths, reads every entity's value at each, classifies the   *)
(* diffType, emits one DiffItem for each path and tallies the summary.     *)
(* Values are written as in the export model; "undefined" is an absent     *)
(* value.  One comparison is made in a run.                                *)
(***************************************************************************)
MaxEntities == 3

PermissionNames == <<"read", "create", "edit", "delete", "viewAll", "modifyAll">>

\* the nine categories and the summary count of each
SummaryKeys ==
  [objectPermission |-> "objectPermissions", fieldPermission |-> "fieldPermissions",
   systemPermission |-> "systemPermissions", apexClass |-> "apexClasses",
   visualforcePage |-> "visualforcePages", lightningPage |-> "lightningPages",
   recordType |-> "recordTypes", tabVisibility |-> "tabVisibilities",
   appVisibility |-> "appVisibilities"]

\* the categories whose paths are names in a sorted sequence
MembershipCategories == {"apexClass", "visualforcePage", "lightningPage", "recordType"}

PathOf(category, objectName, fieldName, permissionName) ==
  [category |-> category, objectName |-> objectName, fieldName |-> fieldName,
   permissionName |-> permissionName]

\* every path of the model's universe of names, in the order of the
\* differences sequence
PathUniverse ==
  [n \in 1 .. 6 |-> PathOf("objectPermission", "Account", "undefined", PermissionNames[n])] \o
  <<PathOf("fieldPermission", "Account", "Name", "read"),
    PathOf("fieldPermission", "Account", "Name", "edit"),
    PathOf("systemPermission", "undefined", "undefined", "ApiEnabled"),
    PathOf("apexClass", "undefined", "undefined", "Bar"),
    PathOf("apexClass", "undefined", "undefined", "Foo"),
    PathOf("visualforcePage", "undefined", "undefined", "Page"),
    PathOf("lightningPage", "undefined", "undefined", "Home"),
    PathOf("recordType", "undefined", "undefined", "Account.Master"),
    PathOf("tabVisibility", "undefined", "undefined", "Tab"),
    PathOf("appVisibility", "App", "undefined", "visible"),
    PathOf("appVisibility", "App", "undefined", "default")>>

AllFalsePermissions == [n \in Range(PermissionNames) |-> "false"]

CanonicalOf(objects, systemPermissions, apexClasses, pages, tab, app) ==
  [objects |-> objects, systemPermissions |-> systemPermissions,
   apexClasses |-> apexClasses,
   visualforcePages |-> IF pages = "all" THEN <<"Page">> ELSE <<>>,
   lightningPages |-> IF pages = "none" THEN <<>> ELSE <<"Home">>,
   recordTypes |-> IF pages = "all" THEN <<"Account.Master">> ELSE <<>>,
   tabVisibilities |-> IF tab = "undefined" THEN EmptyMap ELSE ("Tab" :> tab),
   appVisibilities |-> IF app = "undefined" THEN EmptyMap
                       ELSE ("App" :> [visible |-> "true", default |-> app])]

\* the CanonicalProfiles compared
CanonicalProfiles ==
  {CanonicalOf(EmptyMap, EmptyMap, <<>>, "none", "undefined", "undefined"),
   CanonicalOf("Account" :> [permissions |-> AllFalsePermissions, fields |-> EmptyMap],
               "ApiEnabled" :> "true", <<"Foo">>, "none", "undefined", "undefined"),
   CanonicalOf("Account" :> [permissions |-> [AllFalsePermissions EXCEPT
                                               !["read"] = "true", !["delete"] = "true"],
                             fields |-> ("Name" :> [read |-> "true", edit |-> "false"])],
               "ApiEnabled" :> "false", <<"Bar", "Foo">>, "all", "DefaultOn", "false"),
   CanonicalOf("Account" :> [permissions |-> [AllFalsePermissions EXCEPT !["read"] = "true"],
                             fields |-> ("Name" :> [read |-> "true", edit |-> "true"])],
               EmptyMap, <<"Bar">>, "some", "Hidden", "true"),
   CanonicalOf(EmptyMap, "ApiEnabled" :> "true", <<>>, "all", "DefaultOn", "false"),
   CanonicalOf("Account" :> [permissions |-> [AllFalsePermissions EXCEPT
                                               !["read"] = "true", !["delete"] = "true"],
                             fields |-> ("Name" :> [read |-> "true", edit |-> "false"])],
               "ApiEnabled" :> "true", <<"Foo">>, "all", "DefaultOn", "false")}

EntityIds == <<"A", "B", "C", "D">>

\* the entity lists handed to compare: two entities or more
EntityLists ==
  UNION {[1 .. n -> CanonicalProfiles] : n \in 2 .. MaxEntities}

\* the sorted name sequence of a membership category
MembersOf(profile, category) ==
  CASE category = "apexClass" -> profile.apexClasses
    [] category = "visualforcePage" -> profile.visualforcePages
    [] category = "lightningPage" -> profile.lightningPages
    [] category = "recordType" -> profile.recordTypes

\* whether the path is addressable in the profile
Addressable(profile, path) ==
  CASE path.category = "objectPermission" -> path.objectName \in DOMAIN profile.objects
    [] path.category = "fieldPermission" ->
         /\ path.objectName \in DOMAIN profile.objects
         /\ path.fieldName \in DOMAIN profile.objects[path.objectName].fields
    [] path.category = "systemPermission" ->
         path.permissionName \in DOMAIN profile.systemPermissions
    [] path.category = "tabVisibility" ->
         path.permissionName \in DOMAIN profile.tabVisibilities
    [] path.category = "appVisibility" ->
         path.objectName \in DOMAIN profile.appVisibilities
    [] OTHER -> path.permissionName \in Range(MembersOf(profile, path.category))

\* step 2: the entity's value at the path; absent object-permission data
\* reads as false, a name the entity lacks has no value
ValueAt(profile, path) ==
  IF path.category = "objectPermission"
  THEN (IF Addressable(profile, path)
        THEN profile.objects[path.objectName].permissions[path.permissionName]
        ELSE "false")
  ELSE IF ~Addressable(profile, path) THEN "undefined"
  ELSE CASE path.category = "fieldPermission" ->
              profile.objects[path.objectName].fields[path.fieldName][path.permissionName]
         [] path.category = "systemPermission" ->
              profile.systemPermissions[path.permissionName]
         [] path.category = "tabVisibility" ->
              profile.tabVisibilities[path.permissionName]
         [] path.category = "appVisibility" ->
              profile.appVisibilities[path.objectName][path.permissionName]
         [] OTHER -> "true"

\* as Classify, but added and removed are decided from the last entity
ClassifyFromLast(category, values, unspecifiedAs) ==
  LET present == {values[n] : n \in DOMAIN values} \ {"undefined"}
      complete == \A n \in DOMAIN values : values[n] # "undefined"
  IN  IF category \in MembershipCategories /\ ~complete
      THEN (IF values[Len(values)] = "undefined" THEN "added" ELSE "removed")
      ELSE IF Cardinality(present) <= 1 THEN "unchanged"
      ELSE IF complete THEN "changed"
      ELSE unspecifiedAs

\* step 3: the diffType of a path, given every entity's value in order.
\* The contract names no diffType for a path outside the membership
\* categories that some entity lacks while the others disagree:
\* unspecifiedAs is what the engine gives it.
Classify(category, values, unspecifiedAs) ==
  LET present == {values[n] : n \in DOMAIN values} \ {"undefined"}
      complete == \A n \in DOMAIN values : values[n] # "undefined"
  IN  IF category \in MembershipCategories /\ ~complete
      THEN (IF values[1] = "undefined" THEN "added" ELSE "removed")
      ELSE IF Cardinality(present) <= 1 THEN "unchanged"
      ELSE IF complete THEN "changed"
      ELSE unspecifiedAs

\* step 4: the DiffItem of a path
DiffItemAt(entities, path, unspecifiedAs) ==
  LET values == [n \in DOMAIN entities |-> ValueAt(entities[n], path)]
  IN  [category |-> path.category, objectName |-> path.objectName,
       fieldName |-> path.fieldName, permissionName |-> path.permissionName,
       values |-> [id \in {EntityIds[n] : n \in DOMAIN entities} |->
                     values[CHOOSE n \in DOMAIN entities : EntityIds[n] = id]],
       diffType |-> Classify(path.category, values, unspecifiedAs)]

\* as Tally, but unchanged DiffItems are counted too
TallyAll(differences, category) ==
  Cardinality({n \in DOMAIN differences : differences[n].category = category})

\* step 5: the count of one category
Tally(differences, category) ==
  Cardinality({n \in DOMAIN differences :
                 /\ differences[n].category = category
                 /\ differences[n].diffType # "unchanged"})

\* compare(entities)
compare(entities, unspecifiedAs) ==
  LET InUnion(path) == \E n \in DOMAIN entities : Addressable(entities[n], path)
      paths == SelectSeq(PathUniverse, InUnion)
      differences == [n \in DOMAIN paths |-> DiffItemAt(entities, paths[n], unspecifiedAs)]
      summary == [k \in {SummaryKeys[c] : c \in DOMAIN SummaryKeys} |->
                    Tally(differences, CHOOSE c \in DOMAIN SummaryKeys : SummaryKeys[c] = k)]
  IN  [profiles |-> [n \in DOMAIN entities |-> [id |-> EntityIds[n]]],
       differences |-> differences,
       summary |-> summary,
       totalDifferences |->
         summary.objectPermissions + summary.fieldPermissions +
         summary.systemPermissions + summary.apexClasses +
         summary.visualforcePages + summary.lightningPages + summary.recordTypes +
         summary.tabVisibilities + summary.appVisibilities]

\* a comparison request reaches the Diff Engine
Compare(entities, unspecifiedAs) ==
  /\ comparisonResult = NoComparison
  /\ compared' = entities
  /\ comparisonResult' = compare(entities, unspecifiedAs)
  /\ UNCHANGED outsideEngine

NextCompare ==
  /\ comparisonResult = NoComparison
  /\ \E entities \in EntityLists, unspecifiedAs \in {"changed", "added", "removed"} :
       Compare(entities, unspecifiedAs)

SpecCompare == Init /\ [][NextCompare]_vars

(***************************************************************************)
(* ProfileSelector (frontend/src/components/ProfileSelector.tsx) and       *)
(* compareItems (frontend/src/services/api.ts).  Each event handler runs   *)
(* to its end in one step against the state of the last render; a control  *)
(* can be used only while it is rendered and enabled.  A Set is the        *)
(* sequence of its elements in insertion order.                            *)
(***************************************************************************)
MaxCompares == 2

\* the profiles and permission sets of the connected org
OrgProfiles == <<[id |-> "P1", name |-> <<65, 98>>], [id |-> "P2", name |-> <<66, 98>>]>>

OrgPermissionSets ==
  <<[id |-> "S2", label |-> <<65, 99>>, name |-> <<65, 99>>],
    [id |-> "S3", label |-> <<66, 99>>, name |-> <<90>>]>>

\* what the user types in the search box: nothing, a space, "a", "b", "z"
Queries == {<<>>, <<32>>, <<97>>, <<98>>, <<122>>}

\* String.prototype.toLowerCase on the letters A-Z
ToLowerCase(str) ==
  [n \in DOMAIN str |-> IF str[n] >= 65 /\ str[n] <= 90 THEN str[n] + 32 ELSE str[n]]

\* String.prototype.trim for the space character
RECURSIVE TrimStart(_)
TrimStart(str) ==
  IF str # <<>> /\ Head(str) = 32 THEN TrimStart(Tail(str)) ELSE str

RECURSIVE TrimEnd(_)
TrimEnd(str) ==
  IF str # <<>> /\ str[Len(str)] = 32 THEN TrimEnd(SubSeq(str, 1, Len(str) - 1)) ELSE str

Trim(str) == TrimEnd(TrimStart(str))

\* String.prototype.includes
Includes(str, part) ==
  \E i \in 0 .. Len(str) :
    i + Len(part) <= Len(str) /\ SubSeq(str, i + 1, i + Len(part)) = part

\* the useMemo of filteredProfiles
filteredProfiles ==
  IF Trim(searchQuery) = <<>> THEN listedProfiles
  ELSE SelectSeq(listedProfiles,
                 LAMBDA p : Includes(ToLowerCase(p.name), ToLowerCase(searchQuery)))

\* the useMemo of filteredPermissionSets
filteredPermissionSets ==
  IF Trim(searchQuery) = <<>> THEN listedPermissionSets
  ELSE SelectSeq(listedPermissionSets,
                 LAMBDA ps : \/ Includes(ToLowerCase(ps.label), ToLowerCase(searchQuery))
                             \/ Includes(ToLowerCase(ps.name), ToLowerCase(searchQuery)))

IdsOf(items) == [n \in DOMAIN items |-> items[n].id]

\* the toggle of one id in a Set: delete it, or add it at the end
Toggled(set, id) ==
  IF id \in Range(set) THEN SelectSeq(set, LAMBDA x : x # id) ELSE Append(set, id)

totalSelected == Len(selectedProfileIds) + Len(selectedPermSetIds)

\* the selection screen is rendered: neither spinner is shown
Rendered == ~isLoading /\ ~isComparing

\* fetchData: both lists arrived
FetchFulfilled ==
  /\ isLoading
  /\ listedProfiles' = OrgProfiles
  /\ listedPermissionSets' = OrgPermissionSets
  /\ isLoading' = FALSE
  /\ UNCHANGED <<viewMode, searchQuery, selectedProfileIds, selectedPermSetIds,
                 isComparing, selectorError, completed, compareRequests,
                 outsideSelector>>

\* fetchData: one of the two requests failed
FetchRejected ==
  /\ isLoading
  /\ selectorError' = "error"
  /\ isLoading' = FALSE
  /\ UNCHANGED <<listedProfiles, listedPermissionSets, viewMode, searchQuery,
                 selectedProfileIds, selectedPermSetIds, isComparing, completed,
                 compareRequests, outsideSelector>>

SetViewMode(mode) ==
  /\ Rendered
  /\ viewMode' = mode
  /\ UNCHANGED <<isLoading, listedProfiles, listedPermissionSets, searchQuery,
                 selectedProfileIds, selectedPermSetIds, isComparing, selectorError,
                 completed, compareRequests, outsideSelector>>

SetSearchQuery(query) ==
  /\ Rendered
  /\ searchQuery' = query
  /\ UNCHANGED <<isLoading, listedProfiles, listedPermissionSets, viewMode,
                 selectedProfileIds, selectedPermSetIds, isComparing, selectorError,
                 completed, compareRequests, outsideSelector>>

\* the checkbox of a listed profile
toggleProfileSelection(profileId) ==
  /\ Rendered
  /\ viewMode \in {"profiles", "both"}
  /\ profileId \in Range(IdsOf(filteredProfiles))
  /\ selectedProfileIds' = Toggled(selectedProfileIds, profileId)
  /\ UNCHANGED <<isLoading, listedProfiles, listedPermissionSets, viewMode,
                 searchQuery, selectedPermSetIds, isComparing, selectorError,
                 completed, compareRequests, outsideSelector>>

\* the checkbox of a listed permission set
togglePermSetSelection(permSetId) ==
  /\ Rendered
  /\ viewMode \in {"permissionSets", "both"}
  /\ permSetId \in Range(IdsOf(filteredPermissionSets))
  /\ selectedPermSetIds' = Toggled(selectedPermSetIds, permSetId)
  /\ UNCHANGED <<isLoading, listedProfiles, listedPermissionSets, viewMode,
                 searchQuery, selectedProfileIds, isComparing, selectorError,
                 completed, compareRequests, outsideSelector>>

selectAll ==
  /\ Rendered
  /\ selectedProfileIds' = IF viewMode \in {"profiles", "both"}
                           THEN IdsOf(filteredProfiles) ELSE selectedProfileIds
  /\ selectedPermSetIds' = IF viewMode \in {"permissionSets", "both"}
                           THEN IdsOf(filteredPermissionSets) ELSE selectedPermSetIds
  /\ UNCHANGED <<isLoading, listedProfiles, listedPermissionSets, viewMode,
                 searchQuery, isComparing, selectorError, completed,
                 compareRequests, outsideSelector>>

\* the Clear button, disabled while nothing is selected
clearSelection ==
  /\ Rendered
  /\ totalSelected # 0
  /\ selectedProfileIds' = <<>>
  /\ selectedPermSetIds' = <<>>
  /\ UNCHANGED <<isLoading, listedProfiles, listedPermissionSets, viewMode,
                 searchQuery, isComparing, selectorError, completed,
                 compareRequests, outsideSelector>>

\* as CanCompare, but one selected item is enough
CanCompareOne(total) == total >= 1

\* the test of the Compare button and of handleCompare
CanCompare(total) == ~(total < 2)

\* the request compareItems posts
compareItems(profileIds, permissionSetIds) ==
  IF Len(permissionSetIds) = 0
  THEN [endpoint |-> "/profiles/compare", body |-> [profileIds |-> profileIds]]
  ELSE [endpoint |-> "/profiles/permission-sets/compare",
        body |-> [permissionSetIds |-> permissionSetIds, includeProfiles |-> profileIds]]

\* a click on Compare, up to the await
handleCompare ==
  /\ Rendered
  /\ Len(compareRequests) < MaxCompares
  /\ CanCompare(totalSelected)
  /\ isComparing' = TRUE
  /\ selectorError' = "null"
  /\ compareRequests' =
       Append(compareRequests, compareItems(selectedProfileIds, selectedPermSetIds))
  /\ UNCHANGED <<isLoading, listedProfiles, listedPermissionSets, viewMode,
                 searchQuery, selectedProfileIds, selectedPermSetIds, completed,
                 outsideSelector>>

\* the request was answered: onComparisonComplete(data)
CompareFulfilled ==
  /\ isComparing /\ ~completed
  /\ completed' = TRUE
  /\ UNCHANGED <<isLoading, listedProfiles, listedPermissionSets, viewMode,
                 searchQuery, selectedProfileIds, selectedPermSetIds, isComparing,
                 selectorError, compareRequests, outsideSelector>>

\* the request failed: the catch block
CompareRejected ==
  /\ isComparing /\ ~completed
  /\ selectorError' = "error"
  /\ isComparing' = FALSE
  /\ UNCHANGED <<isLoading, listedProfiles, listedPermissionSets, viewMode,
                 searchQuery, selectedProfileIds, selectedPermSetIds, completed,
                 compareRequests, outsideSelector>>

NextSelector ==
  \/ FetchFulfilled
  \/ FetchRejected
  \/ \E mode \in {"profiles", "permissionSets", "both"} : SetViewMode(mode)
  \/ \E query \in Queries : SetSearchQuery(query)
  \/ \E id \in {"P1", "P2"} : toggleProfileSelection(id)
  \/ \E id \in {"S2", "S3"} : togglePermSetSelection(id)
  \/ selectAll
  \/ clearSelection
  \/ handleCompare
  \/ CompareFulfilled
  \/ CompareRejected

SpecSelector == Init /\ [][NextSelector]_vars

(***************************************************************************)
(* The comparison history kept in localStorage: getHistory, saveToHistory, *)
(* deleteHistoryEntry and clearHistory.  An entry is its id, its timestamp *)
(* and its orgId; the id is the number of the saveToHistory call that made *)
(* it, which stands for the pair of Date.now() and nine random digits that *)
(* generateId joins.  A write the storage refuses throws and leaves the    *)
(* stored item as it was.                                                  *)
(***************************************************************************)
MAX_HISTORY_ENTRIES == 20

\* most calls of saveToHistory in a run
MaxSaves == 21
\* most calls of deleteHistoryEntry in a run
MaxDeletes == 1
\* most writes the storage refuses in a run
MaxFailures == 1
\* how far the clock is set back
MaxSkew == 2

\* orgInfo?.orgId of a save: no orgInfo, or one of two orgs
OrgIds == {"undefined", "00D1", "00D2"}

\* what a write to the storage can do
WriteOutcomes == {"stored", "QuotaExceededError", "other"}

Least(a, b) == IF a < b THEN a ELSE b

\* Array.prototype.slice(0, end)
SliceTo(list, end) == SubSeq(list, 1, Least(end, Len(list)))

\* JSON.stringify of an entry leaves out a property whose value is undefined
StringifyEntry(entry) == IF entry.orgId = "undefined" THEN [id |-> entry.id, timestamp |-> entry.timestamp] ELSE entry

\* JSON.parse of it: reading the property left out gives undefined
ParseEntry(json) == IF "orgId" \in DOMAIN json THEN json ELSE [id |-> json.id, timestamp |-> json.timestamp, orgId |-> "undefined"]

Stringify(entries) == [i \in 1 .. Len(entries) |-> StringifyEntry(entries[i])]

Parse(text) == [i \in 1 .. Len(text) |-> ParseEntry(text[i])]

\* entries.sort((a, b) => b.timestamp - a.timestamp): newest first, and
\* entries of one timestamp keep their order
RECURSIVE SortNewestFirst(_)
SortNewestFirst(entries) ==
  IF entries = <<>> THEN <<>>
  ELSE LET first == Head(entries)
           rest == SortNewestFirst(Tail(entries))
           Newer(e) == e.timestamp > first.timestamp
           NotNewer(e) == ~(e.timestamp > first.timestamp)
       IN SelectSeq(rest, Newer) \o <<first>> \o SelectSeq(rest, NotNewer)

\* localStorage.getItem(HISTORY_KEY) and JSON.parse: no item, no entries
StoredList(item) == IF ~item.present THEN <<>> ELSE Parse(item.text)

\* getHistory without its sort
getHistoryUnsorted(item) == StoredList(item)

getHistory(item) == SortNewestFirst(StoredList(item))

\* localStorage.setItem(HISTORY_KEY, JSON.stringify(entries))
ItemOf(entries) == [present |-> TRUE, text |-> Stringify(entries)]

\* the entry saveToHistory builds
NewEntry(orgId) == [id |-> saved + 1, timestamp |-> clock, orgId |-> orgId]

\* history.unshift(entry); history.slice(0, MAX_HISTORY_ENTRIES)
Trimmed(entry) == SliceTo(<<entry>> \o getHistory(storage), MAX_HISTORY_ENTRIES)

\* trimmed.slice(0, Math.floor(MAX_HISTORY_ENTRIES / 2))
Reduced(entry) == SliceTo(Trimmed(entry), MAX_HISTORY_ENTRIES \div 2)

\* whether a call of saveToHistory ends in an exception: only the second
\* setItem stands outside the try block
SaveThrows(write, retry) == write = "QuotaExceededError" /\ retry # "stored"

\* the item saveToHistory leaves in the storage
ItemAfterSave(entry, write, retry) ==
  CASE write = "stored" -> ItemOf(Trimmed(entry))
    [] write = "QuotaExceededError" /\ retry = "stored" -> ItemOf(Reduced(entry))
    [] OTHER -> storage

\* which of its two writes went through
Wrote(write, retry) ==
  CASE write = "stored" -> "first"
    [] write = "QuotaExceededError" /\ retry = "stored" -> "retry"
    [] OTHER -> "none"

\* writes of the call that the storage refused
Refused(write) == IF write = "stored" THEN 0 ELSE 1

\* saveToHistory(data, orgInfo): write is the outcome of the first setItem,
\* retry that of the second one, made only after a QuotaExceededError
saveToHistory(orgId, write, retry) ==
  /\ write = "QuotaExceededError" \/ retry = "stored"
  /\ failures + Refused(write) <= MaxFailures
  /\ LET entry == NewEntry(orgId)
     IN /\ storage' = ItemAfterSave(entry, write, retry)
        /\ historyCall' = [op |-> "save", entry |-> entry,
                           before |-> StoredList(storage),
                           wrote |-> Wrote(write, retry),
                           returned |-> ~SaveThrows(write, retry),
                           threw |-> SaveThrows(write, retry)]
  /\ saved' = saved + 1
  /\ clock' = clock + 1
  /\ failures' = failures + Refused(write)
  /\ UNCHANGED <<removals, panelVars, outsideHistory>>

\* history.filter(entry => entry.id !== id)
Without(entries, id) == LET Other(e) == e.id # id IN SelectSeq(entries, Other)

\* the item deleteHistoryEntry leaves in the storage
ItemAfterDelete(id, write) == IF write = "stored" THEN ItemOf(Without(getHistory(storage), id)) ELSE storage

\* deleteHistoryEntry(id): its setItem stands in no try block
deleteHistoryEntry(id, write) ==
  /\ failures + Refused(write) <= MaxFailures
  /\ storage' = ItemAfterDelete(id, write)
  /\ historyCall' = [op |-> "delete", id |-> id,
                     before |-> StoredList(storage),
                     threw |-> write # "stored"]
  /\ removals' = removals + 1
  /\ failures' = failures + Refused(write)
  /\ UNCHANGED <<clock, saved, outsideHistory>>

\* clearHistory(): localStorage.removeItem(HISTORY_KEY)
clearHistory ==
  /\ storage' = NoItem
  /\ historyCall' = [op |-> "clear", before |-> StoredList(storage)]
  /\ UNCHANGED <<clock, saved, removals, failures, outsideHistory>>

\* the two called from elsewhere than the panel
DeleteCalled(id, write) == deleteHistoryEntry(id, write) /\ UNCHANGED panelVars

ClearCalled == clearHistory /\ UNCHANGED panelVars

\* the system clock is set back, once, by MaxSkew saves' worth of time
ClockSetBack ==
  /\ clock = saved
  /\ clock >= MaxSkew
  /\ clock' = clock - MaxSkew
  /\ UNCHANGED <<storage, saved, removals, failures, historyCall, panelVars,
                 outsideHistory>>

\* the ids a caller may ask to delete: those given out so far, and the next
GivenIds == 1 .. saved + 1

\* the history service called an arbitrary number of times by a caller that
\* passes no orgInfo
NextHistory ==
  \/ /\ saved < MaxSaves
     /\ \E write \in WriteOutcomes, retry \in WriteOutcomes : saveToHistory("undefined", write, retry)
  \/ /\ removals < MaxDeletes
     /\ \E id \in GivenIds, write \in WriteOutcomes : DeleteCalled(id, write)
  \/ /\ storage.present
     /\ ClearCalled
  \/ ClockSetBack

SpecHistory == Init /\ [][NextHistory]_vars

(***************************************************************************)
(* HistoryPanel: the list it read from the storage when it mounted, the    *)
(* rows it renders while expanded, and its click handlers.                 *)
(***************************************************************************)
\* most calls of saveToHistory while the panel is watched
MaxPanelSaves == 2

\* most comparisons loaded from the panel in a run
MaxLoads == 1

\* currentOrgId && entry.orgId && entry.orgId !== currentOrgId
isDifferentOrgNever(entryOrgId, orgId) == FALSE

isDifferentOrg(entryOrgId, orgId) == TruthyValue(orgId) /\ TruthyValue(entryOrgId) /\ entryOrgId # orgId

\* the panel renders rows: history.length > 0 and isExpanded
RowsShown == history # <<>> /\ isExpanded

\* the component is mounted anew: useState initial values, then the effect
Mount ==
  /\ history' = getHistory(storage)
  /\ isExpanded' = FALSE
  /\ showClearConfirm' = FALSE
  /\ UNCHANGED <<serviceVars, currentOrgId, panelClick, loadedComparisons,
                 outsideHistory>>

\* the parent renders the panel with another currentOrgId
SetCurrentOrg(orgId) ==
  /\ orgId # currentOrgId
  /\ currentOrgId' = orgId
  /\ UNCHANGED <<serviceVars, history, isExpanded, showClearConfirm, panelClick,
                 loadedComparisons, outsideHistory>>

\* the header button: setIsExpanded(!isExpanded)
ToggleExpanded ==
  /\ history # <<>>
  /\ isExpanded' = ~isExpanded
  /\ UNCHANGED <<serviceVars, history, showClearConfirm, currentOrgId,
                 panelClick, loadedComparisons, outsideHistory>>

\* handleLoad(entry): onLoadComparison(entry.data)
handleLoad(entry) == loadedComparisons' = Append(loadedComparisons, entry)

\* a click on row i: !isDifferentOrg && handleLoad(entry)
ClickRow(i) ==
  /\ RowsShown
  /\ i \in DOMAIN history
  /\ isDifferentOrg(history[i].orgId, currentOrgId) \/ Len(loadedComparisons) < MaxLoads
  /\ IF isDifferentOrg(history[i].orgId, currentOrgId)
       THEN UNCHANGED loadedComparisons
       ELSE handleLoad(history[i])
  /\ panelClick' = [on |-> "row", entry |-> history[i], currentOrgId |-> currentOrgId,
                     called |-> ~isDifferentOrg(history[i].orgId, currentOrgId)]
  /\ UNCHANGED <<serviceVars, history, isExpanded, showClearConfirm, currentOrgId,
                 outsideHistory>>

\* a click on the delete button of row i: handleDelete(entry.id, e); when
\* deleteHistoryEntry throws, setHistory is not reached
handleDelete(i, write) ==
  /\ RowsShown
  /\ i \in DOMAIN history
  /\ deleteHistoryEntry(history[i].id, write)
  /\ history' = IF write = "stored" THEN getHistory(storage') ELSE history
  /\ panelClick' = [on |-> "delete", entry |-> history[i], currentOrgId |-> currentOrgId,
                     threw |-> write # "stored"]
  /\ UNCHANGED <<isExpanded, showClearConfirm, currentOrgId, loadedComparisons>>

\* "Clear history" and "Cancel": setShowClearConfirm
SetShowClearConfirm(shown) ==
  /\ RowsShown
  /\ showClearConfirm = ~shown
  /\ showClearConfirm' = shown
  /\ UNCHANGED <<serviceVars, history, isExpanded, currentOrgId, panelClick,
                 loadedComparisons, outsideHistory>>

\* "Clear All"
handleClearAll ==
  /\ RowsShown
  /\ showClearConfirm
  /\ clearHistory
  /\ history' = <<>>
  /\ showClearConfirm' = FALSE
  /\ UNCHANGED <<isExpanded, currentOrgId, panelClick, loadedComparisons>>

\* the panel in use while comparisons of several orgs are saved
NextPanel ==
  \/ /\ saved < MaxPanelSaves
     /\ \E orgId \in OrgIds, write \in WriteOutcomes, retry \in WriteOutcomes : saveToHistory(orgId, write, retry)
  \/ Mount
  \/ \E orgId \in OrgIds : SetCurrentOrg(orgId)
  \/ ToggleExpanded
  \/ \E i \in 1 .. MaxPanelSaves : ClickRow(i)
  \/ \E i \in 1 .. MaxPanelSaves, write \in WriteOutcomes : handleDelete(i, write)
  \/ \E shown \in BOOLEAN : SetShowClearConfirm(shown)
  \/ handleClearAll

SpecPanel == Init /\ [][NextPanel]_vars

(***************************************************************************)
(* The grouping and building functions over bounded inputs: the org's      *)
(* records are drawn from small universes and one call is made on a new    *)
(* normalizer while every upstream call fulfils.                           *)
(***************************************************************************)
\* most object-permission records in a drawn org
MaxObjPerms == 2
\* most field-permission records in a drawn org
MaxFieldPerms == 2

IdW == <<48, 119>>

ObjPermUniverse ==
  {ObjPerm("S2", "Account", TRUE), ObjPerm("S2", "Account", FALSE),
   ObjPerm("S2", "Contact", TRUE), ObjPerm("S3", "Account", FALSE)}

FieldPermUniverse ==
  {FieldPerm("S2", "Account", <<LetterA, Dot, LetterA>>, TRUE),
   FieldPerm("S2", "Account", <<LetterA, Dot, LetterA>>, FALSE),
   FieldPerm("S2", "Contact", <<LetterA>>, TRUE),
   FieldPerm("S3", "Contact", <<LetterA, Dot, LetterA>>, FALSE)}

\* every raw field reference of at most MaxFieldLen code units over 'a' and '.'
FieldStrings == SeqsUpTo({Dot, LetterA}, MaxFieldLen)

AccessTypes ==
  {"ApexClass", "ApexPage", "RecordType", "TabSet", "CustomTab", "FlexiPage",
   "ConnectedApplication"}

AccessUniverse ==
  {Access("S2", type, id) : type \in AccessTypes, id \in {IdW, IdX, IdY, IdZ}}

\* two ids share the name "A"; "AB" sorts between "A" and "B"
FullCatalog == (IdW :> NameA) @@ (IdX :> NameB) @@ (IdY :> NameA) @@ (IdZ :> NameAB)
\* the Lightning-page catalog has no name for IdZ
PageCatalog == (IdW :> NameA) @@ (IdX :> NameB) @@ (IdY :> NameA)

DataBase ==
  [BaseOrg EXCEPT !.lightningPages = PageCatalog, !.apexClasses = FullCatalog,
                  !.apexPages = FullCatalog, !.recordTypes = FullCatalog,
                  !.customTabs = FullCatalog, !.customApps = FullCatalog]

\* orgs that differ in their object permissions and in one field reference
FieldReferenceOrgs ==
  {[DataBase EXCEPT !.objectPermissions = objs,
                    !.fieldPermissions = <<FieldPerm("S2", object, field, TRUE)>>] :
     objs \in SeqsUpTo(ObjPermUniverse, MaxObjPerms),
     object \in {"Account", "Contact"}, field \in FieldStrings}

\* orgs that differ in their object- and field-permission records
PermissionOrgs ==
  {[DataBase EXCEPT !.objectPermissions = objs, !.fieldPermissions = flds] :
     objs \in SeqsUpTo(ObjPermUniverse, MaxObjPerms),
     flds \in SeqsUpTo(FieldPermUniverse, MaxFieldPerms)}

\* orgs that differ in their setup-entity-access records
AccessOrgs ==
  {[DataBase EXCEPT !.setupEntityAccess = access] :
     access \in SeqsUpTo(AccessUniverse, MaxAccess)}

\* the tab and app mappings a profile's metadata can carry
RichTabs == {EmptyMap, NameA :> "Hidden", NameB :> "DefaultOff"}
RichApps == {EmptyMap, NameA :> [visible |-> FALSE, default |-> FALSE]}

\* the metadata maps getProfileMetadata can resolve with: for each profile no
\* entry, or an entry with one of the tab and one of the app mappings
MetadataMaps ==
  UNION {[have -> [present : {TRUE}, tabVisibilities : RichTabs,
                   appVisibilities : RichApps]] : have \in SUBSET ProfileIds}

\* both owners may use the tab named "A" and the app named "B"
VisibilityAccess ==
  << Access("S1", "CustomTab", IdW), Access("S1", "TabSet", IdX),
     Access("S2", "CustomTab", IdW), Access("S2", "TabSet", IdX),
     Access("S2", "CustomTab", IdZ), Access("S2", "TabSet", IdZ),
     Access("S3", "CustomTab", IdX), Access("S3", "TabSet", IdZ) >>

\* orgs that differ in the profile metadata; their tab and app catalogs have
\* no name for IdZ
MetadataOrgs ==
  {[DataBase EXCEPT !.metadata = md, !.setupEntityAccess = VisibilityAccess,
                    !.customTabs = PageCatalog, !.customApps = PageCatalog] :
     md \in MetadataMaps}

DataOrgs == FieldReferenceOrgs \cup PermissionOrgs \cup AccessOrgs \cup MetadataOrgs

\* the ids a comparison of everything asks for
RequestAll(k) == IF k = "profile" THEN <<"P1", "P2">> ELSE <<"S2", "S3">>

\* construct a normalizer of kind k and run one call to its return, every
\* upstream call fulfilling and every requested id resolving
NormalizeAllFulfilled(k, idSeq) ==
  LET found == IF k = "profile" THEN ProfileIds ELSE Range(idSeq)
      cache == IF k = "profile" THEN [id \in found |-> ProfileRecord(id)] ELSE EmptyMap
      psMap == IF k = "permset" THEN [id \in found |-> PermSetInfo(id)] ELSE EmptyMap
      mapped == IF k = "profile" THEN Range(idSeq) ELSE {}
      reverseMap == [s \in {OwnedPermSet[p] : p \in mapped} |->
                       CHOOSE p \in mapped : OwnedPermSet[p] = s]
      w1 == WaveOneLocals({})
      lk == LookupIdsOf(k, w1.setupEntityAccess)
      nm == NamesAfter({}, lk)
  IN  /\ pc = "idle" /\ kind = "none"
      /\ kind' = k
      /\ calls' = 1
      /\ ids' = idSeq
      /\ allProfiles' = found
      /\ profiles' = cache
      /\ permSetMap' = psMap
      /\ profileToPermSetMap' = [p \in mapped |-> OwnedPermSet[p]]
      /\ permSetToProfileMap' = reverseMap
      /\ results' = [i \in WaveOne |-> "fulfilled"]
      /\ wave1' = w1
      /\ lookupIds' = lk
      /\ caught' = {}
      /\ names' = nm
      /\ normalized' =
           IF k = "profile"
           THEN FinishProfiles(idSeq, cache, reverseMap, w1, nm, MetadataValue(idSeq))
           ELSE FinishPermSets(idSeq, psMap, w1, nm)
      /\ sent' = WaveOneIssued(IF k = "profile"
                               THEN ValuesOf([p \in mapped |-> OwnedPermSet[p]])
                               ELSE idSeq) \o WaveTwoIssued(lk)
      /\ lookups' = LookupOutcomes({})
      /\ pc' = "done"
      /\ UNCHANGED <<org, outsideNormalizer>>

InitData ==
  /\ org \in DataOrgs
  /\ kind = "none"
  /\ calls = 0
  /\ profiles = EmptyMap
  /\ pc = "idle"
  /\ ids = <<>>
  /\ LocalsAtEntry
  /\ OutsideNormalizerAtRest

NextData == \E k \in {"profile", "permset"} : NormalizeAllFulfilled(k, RequestAll(k))

SpecData == InitData /\ [][NextData]_vars

(***************************************************************************)
(* Vocabulary of the properties.                                           *)
(***************************************************************************)
Done == pc = "done"

\* the ParentId under which the upstream records of an output profile are filed
ParentOf(profileId) ==
  IF kind = "profile" THEN MapGetId(profileToPermSetMap, profileId) ELSE profileId

\* the indices of the upstream records of one owner
OwnRecords(records, profileId) ==
  {i \in DOMAIN records : records[i].ParentId = ParentOf(profileId)}

\* a is a subsequence of b: an increasing choice of positions of b spells a
IsSubsequence(a, b) ==
  \E f \in [DOMAIN a -> DOMAIN b] :
    /\ \A i \in DOMAIN a : b[f[i]] = a[i]
    /\ \A i, j \in DOMAIN a : i < j => f[i] < f[j]

OutputIds == [i \in DOMAIN normalized |-> normalized[i].profileId]

\* position of the first '.' of a string, 0 when it has none
FirstDot(str) ==
  IF \E i \in DOMAIN str : str[i] = Dot
  THEN CHOOSE i \in DOMAIN str : str[i] = Dot /\ \A j \in 1 .. (i - 1) : str[j] # Dot
  ELSE 0

\* the substring after the first '.', the whole string when there is none
AfterFirstDot(str) ==
  IF FirstDot(str) = 0 THEN str ELSE SubSeq(str, FirstDot(str) + 1, Len(str))

\* the text between the first '.' and the next one (or the end)
SecondSegment(str) ==
  LET rest == SubSeq(str, FirstDot(str) + 1, Len(str)) IN
  IF FirstDot(rest) = 0 THEN rest ELSE SubSeq(rest, 1, FirstDot(rest) - 1)

\* a <= b, code unit by code unit: b extends a, or they first differ where a
\* holds the smaller unit
LexLeq(a, b) ==
  \/ /\ Len(a) <= Len(b)
     /\ \A i \in DOMAIN a : a[i] = b[i]
  \/ \E k \in DOMAIN a \cap DOMAIN b :
       /\ \A i \in 1 .. (k - 1) : a[i] = b[i]
       /\ a[k] < b[k]

IsAscending(arr) == \A i, j \in DOMAIN arr : i < j => LexLeq(arr[i], arr[j])

NoRepeats(arr) == \A i, j \in DOMAIN arr : i # j => arr[i] # arr[j]

Occurrences(arr, v) == Cardinality({i \in DOMAIN arr : arr[i] = v})

AllFalse(permissions) ==
  /\ ~permissions.read /\ ~permissions.create /\ ~permissions.edit
  /\ ~permissions.delete /\ ~permissions.viewAll /\ ~permissions.modifyAll

(***************************************************************************)
(* Claims.                                                                 *)
(***************************************************************************)
\* C1: when a call returns, the ids of the returned profiles are a
\* subsequence of the requested ids, in the same order, and every returned
\* profile has an id for which this call's basic-record lookup returned a
\* record.
C1_OutputFollowsLookup ==
  Done => /\ IsSubsequence(OutputIds, ids)
          /\ \A i \in DOMAIN normalized : normalized[i].profileId \in allProfiles

\* the wave-one queries of the current call that rejected
RejectedWaveOne == {i \in WaveOne : results[i] = "rejected"}

\* what the current call returns when the wave-one queries in emptied resolve
\* with an empty result, the others with the org's data, and every other
\* upstream call does what it did in the current call
ReturnWithEmptied(emptied) ==
  LET w1 == [objectPermissions |-> IF 1 \in emptied THEN <<>> ELSE org.objectPermissions,
             fieldPermissions |-> IF 2 \in emptied THEN <<>> ELSE org.fieldPermissions,
             permissionSets |-> IF 3 \in emptied THEN <<>> ELSE org.permissionSets,
             setupEntityAccess |-> IF 4 \in emptied THEN <<>> ELSE org.setupEntityAccess,
             lightningPageNames |-> IF 5 \in emptied THEN EmptyMap ELSE org.lightningPages]
      nm == NamesAfter(caught, LookupIdsOf(kind, w1.setupEntityAccess))
  IN  IF kind = "profile"
      THEN FinishProfiles(ids, profiles, permSetToProfileMap, w1, nm, MetadataValue(ids))
      ELSE FinishPermSets(ids, permSetMap, w1, nm)

\* C2: whatever subset of the five wave-one queries rejects, the call goes on
\* to wave two, and what it returns is what it returns when the rejected
\* queries resolve with an empty result and the fulfilled ones with their data.
C2_FailedQueryAsEmpty ==
  /\ [](Done => normalized = ReturnWithEmptied(RejectedWaveOne))
  /\ [][pc = "wave1" => pc' = "wave2"]_vars

\* a call returned profiles after some, not all, wave-one queries rejected,
\* and the rejections show in what it returned
C2_Witness ==
  /\ Done
  /\ RejectedWaveOne \notin {{}, WaveOne}
  /\ normalized # <<>>
  /\ normalized # ReturnWithEmptied({})

\* C3 as claimed: no call ever rejects, whichever upstream calls fail.
C3_NeverRejects == pc # "rejected"

\* C3, amended: a call rejects only at the three awaits that have no handler
\* (the basic-record lookup, the profile-to-permission-set lookup, the profile
\* metadata fetch); from the await of wave one or of wave two it always goes
\* on, whatever subset of the ten queries rejects.
C3_RejectsOnlyAtUnguardedAwait ==
  [][pc' = "rejected" /\ pc # "rejected" => pc \in {"basic", "owner", "meta"}]_vars

\* a call returned although queries of both waves rejected
C3_Witness ==
  /\ Done
  /\ RejectedWaveOne # {}
  /\ caught # {}

\* C4 as claimed: a requested profile id that is absent from the
\* profile-to-permission-set map of the call is not in the output of
\* normalizeProfiles, even when a basic record for it exists.
C4_UnmappedProfileOmitted ==
  Done /\ kind = "profile" =>
    \A i \in DOMAIN normalized : normalized[i].profileId \in DOMAIN profileToPermSetMap

\* the field-permission records the call received that are filed under the
\* owner of an output profile
OwnFieldPerms(profileId) ==
  {wave1.fieldPermissions[i] : i \in OwnRecords(wave1.fieldPermissions, profileId)}

\* the object-permission records the call received that are filed under the
\* owner of an output profile
OwnObjPerms(profileId) ==
  {wave1.objectPermissions[i] : i \in OwnRecords(wave1.objectPermissions, profileId)}

\* the key Field.split('.')[1] || Field yields: the text between the first
\* and the second '.', or the whole reference when there is no '.' or that
\* text is empty
SegmentKey(str) ==
  IF FirstDot(str) # 0 /\ SecondSegment(str) # <<>> THEN SecondSegment(str) ELSE str

\* the keys of objects[x].fields of an output profile
FieldKeys(p, x) == IF x \in DOMAIN p.objects THEN DOMAIN p.objects[x].fields ELSE {}

ObjectsOfFieldPerms(profileId) == {r.SobjectType : r \in OwnFieldPerms(profileId)}
ObjectsOfObjPerms(profileId) == {r.SobjectType : r \in OwnObjPerms(profileId)}

\* C6: in every returned profile, an object named by some field-permission
\* record of the owner and by none of its object-permission records has an
\* entry whose six permission flags are all false.
C6_FieldOnlyObjectAllFalse ==
  Done => \A i \in DOMAIN normalized :
            \A x \in ObjectsOfFieldPerms(normalized[i].profileId)
                       \ ObjectsOfObjPerms(normalized[i].profileId) :
              /\ x \in DOMAIN normalized[i].objects
              /\ AllFalse(normalized[i].objects[x].permissions)

\* a returned profile has an object known from field permissions alone, next
\* to one with object permissions
C6_Witness ==
  /\ Done
  /\ \E i \in DOMAIN normalized :
       /\ ObjectsOfFieldPerms(normalized[i].profileId)
            \ ObjectsOfObjPerms(normalized[i].profileId) # {}
       /\ ObjectsOfObjPerms(normalized[i].profileId) # {}

\* C7: in every returned profile, the keys of objects are exactly the object
\* names of the owner's object-permission records together with those of its
\* field-permission records.
C7_ObjectsAreReferencedObjects ==
  Done => \A i \in DOMAIN normalized :
            DOMAIN normalized[i].objects =
              ObjectsOfObjPerms(normalized[i].profileId)
                \cup ObjectsOfFieldPerms(normalized[i].profileId)

\* a returned profile has one object from object permissions alone and
\* another from field permissions alone
C7_Witness ==
  /\ Done
  /\ \E i \in DOMAIN normalized :
       /\ ObjectsOfObjPerms(normalized[i].profileId)
            \ ObjectsOfFieldPerms(normalized[i].profileId) # {}
       /\ ObjectsOfFieldPerms(normalized[i].profileId)
            \ ObjectsOfObjPerms(normalized[i].profileId) # {}
       /\ Cardinality(DOMAIN normalized[i].objects) = 2

\* C8: when of the five wave-one queries only the field-permission query
\* rejects, the call returns the same profiles as it returns with that query
\* fulfilled, in the same order, each with the same apex classes and system
\* permissions and, for every object that has object permissions, the same
\* permissions; every entry of objects has an empty fields mapping, and an
\* object the fulfilled run has beyond these has all-false permissions.
C8_FieldQueryFailureKeepsTheRest ==
  Done /\ RejectedWaveOne = {2} =>
    LET fulfilled == ReturnWithEmptied({}) IN
    /\ Len(normalized) = Len(fulfilled)
    /\ \A i \in DOMAIN normalized :
         /\ normalized[i].profileId = fulfilled[i].profileId
         /\ normalized[i].apexClasses = fulfilled[i].apexClasses
         /\ normalized[i].systemPermissions = fulfilled[i].systemPermissions
         /\ DOMAIN normalized[i].objects \subseteq DOMAIN fulfilled[i].objects
         /\ \A x \in DOMAIN normalized[i].objects :
              /\ normalized[i].objects[x].permissions = fulfilled[i].objects[x].permissions
              /\ normalized[i].objects[x].fields = EmptyMap
         /\ \A x \in DOMAIN fulfilled[i].objects \ DOMAIN normalized[i].objects :
              AllFalse(fulfilled[i].objects[x].permissions)

\* a call returned after the field-permission query alone rejected: a
\* profile has an object with a granted permission, an apex class and a
\* system permission, and the fulfilled run has field entries to lose
C8_Witness ==
  /\ Done /\ RejectedWaveOne = {2} /\ kind = "profile"
  /\ \E i \in DOMAIN normalized :
       /\ \E x \in DOMAIN normalized[i].objects :
            ~AllFalse(normalized[i].objects[x].permissions)
       /\ \E x \in DOMAIN ReturnWithEmptied({})[i].objects :
            ReturnWithEmptied({})[i].objects[x].fields # EmptyMap
       /\ normalized[i].apexClasses # <<>>
       /\ DOMAIN normalized[i].systemPermissions # {}

\* the four name arrays of a returned profile
NameArrays(p) == <<p.apexClasses, p.visualforcePages, p.lightningPages, p.recordTypes>>

\* C9: in every profile either normalizer returns, apexClasses,
\* visualforcePages, lightningPages and recordTypes are each in ascending
\* order of code units, whatever the order of the upstream records.
C9_NameArraysAscending ==
  Done => \A i \in DOMAIN normalized : \A k \in 1..4 :
            IsAscending(NameArrays(normalized[i])[k])

\* a returned profile has two different apex classes, and the upstream
\* record of the greater one comes first
C9_Witness ==
  /\ Done /\ Len(wave1.setupEntityAccess) >= 2
  /\ \E i \in DOMAIN normalized :
       LET arr == normalized[i].apexClasses
           first == wave1.setupEntityAccess[1]
       IN  /\ Len(arr) = 2 /\ arr[1] # arr[2]
           /\ first.SetupEntityType = "ApexClass"
           /\ first.ParentId = ParentOf(normalized[i].profileId)
           /\ MapGet(names.apexClassNames, first.SetupEntityId) = arr[2]

\* C10 as claimed: no display name occurs more than once in apexClasses,
\* visualforcePages, lightningPages or recordTypes of a returned profile.
C10_NoNameTwice ==
  Done => \A i \in DOMAIN normalized : \A k \in 1..4 :
            NoRepeats(NameArrays(normalized[i])[k])

\* the type of setup-entity-access record each name array is built from
ArrayType == <<"ApexClass", "ApexPage", "FlexiPage", "RecordType">>

\* the string a record of the k-th type contributes: the name its id resolves
\* to; for a Lightning page without a name the id itself in profile mode;
\* Undefined when it contributes nothing
Contribution(k, id) ==
  LET name == CASE k = 1 -> MapGet(names.apexClassNames, id)
                [] k = 2 -> MapGet(names.apexPageNames, id)
                [] k = 3 -> MapGet(wave1.lightningPageNames, id)
                [] k = 4 -> MapGet(names.recordTypeNames, id)
  IN  IF Truthy(name) THEN name
      ELSE IF k = 3 /\ kind = "profile" THEN id
      ELSE Undefined

\* every string a name array can hold
NameStrings == Range(FullCatalog) \cup DOMAIN FullCatalog

\* C10, amended: normalization sorts and does not deduplicate: a string is in
\* a name array once for each setup-entity-access record of the owner, of the
\* array's type, that the call received and that contributes it, so a
\* repeated record, or two ids with one name, give the name twice.
C10_NameOncePerRecord ==
  Done => \A i \in DOMAIN normalized : \A k \in 1..4 : \A v \in NameStrings :
            Occurrences(NameArrays(normalized[i])[k], v) =
              Cardinality({r \in OwnRecords(wave1.setupEntityAccess, normalized[i].profileId) :
                             /\ wave1.setupEntityAccess[r].SetupEntityType = ArrayType[k]
                             /\ Contribution(k, wave1.setupEntityAccess[r].SetupEntityId) = v})

\* a returned profile has a name twice in one array, from two records with
\* different ids
C10_Witness ==
  /\ Done
  /\ \E i \in DOMAIN normalized : \E k \in 1..4 : \E v \in NameStrings :
       /\ Occurrences(NameArrays(normalized[i])[k], v) = 2
       /\ \E r, q \in OwnRecords(wave1.setupEntityAccess, normalized[i].profileId) :
            /\ wave1.setupEntityAccess[r].SetupEntityId # wave1.setupEntityAccess[q].SetupEntityId
            /\ Contribution(k, wave1.setupEntityAccess[r].SetupEntityId) = v
            /\ Contribution(k, wave1.setupEntityAccess[q].SetupEntityId) = v

\* the bundles the current call grouped its records into
Bundles ==
  IF kind = "profile"
  THEN groupDataByProfile(ids, permSetToProfileMap, wave1.objectPermissions,
                          wave1.fieldPermissions, wave1.permissionSets,
                          wave1.setupEntityAccess, names.apexClassNames,
                          names.apexPageNames, names.recordTypeNames,
                          names.customTabNames, names.customAppNames,
                          wave1.lightningPageNames)
  ELSE groupDataByPermissionSet(ids, wave1.objectPermissions,
                                wave1.fieldPermissions, wave1.permissionSets,
                                wave1.setupEntityAccess, names.apexClassNames,
                                names.apexPageNames, names.recordTypeNames,
                                names.customTabNames, names.customAppNames,
                                wave1.lightningPageNames)

\* the switch of the current mode applied to one record
RouteOne(bundle, access) ==
  IF kind = "profile"
  THEN RouteAccessProfile(bundle, access, names.apexClassNames, names.apexPageNames,
                          names.recordTypeNames, names.customTabNames,
                          names.customAppNames, wave1.lightningPageNames)
  ELSE RouteAccessPermSet(bundle, access, names.apexClassNames, names.apexPageNames,
                          names.recordTypeNames, names.customTabNames,
                          names.customAppNames, wave1.lightningPageNames)

\* the collection of a bundle each type tag is routed to
CollectionOf ==
  [ApexClass |-> "apexClasses", ApexPage |-> "visualforcePages",
   RecordType |-> "recordTypes", TabSet |-> "apps", CustomTab |-> "tabs",
   FlexiPage |-> "lightningPages"]

\* the owner whose bundle a ParentId leads to in the current mode
OwnerOf(parentId) ==
  IF kind = "profile" THEN MapGetId(permSetToProfileMap, parentId) ELSE parentId

\* the setup-entity-access records the call received for one owner with one tag
TaggedRecords(owner, tag) ==
  {r \in Range(wave1.setupEntityAccess) :
     r.SetupEntityType = tag /\ OwnerOf(r.ParentId) = owner}

\* C11: routing goes by the type tag alone: applying the switch to any
\* received record changes at most the one collection of its tag (ApexClass
\* apexClasses, ApexPage visualforcePages, RecordType recordTypes, TabSet
\* apps, CustomTab tabs, FlexiPage lightningPages) and only by appending one
\* string, a record with another tag changes nothing, and in the grouped
\* bundles a collection is empty unless the owner has a record of its tag.
C11_RoutedByTypeTag ==
  Done =>
    \A owner \in DOMAIN Bundles :
      /\ \A r \in Range(wave1.setupEntityAccess) :
           LET before == Bundles[owner]
               after == RouteOne(before, r)
           IN  IF r.SetupEntityType \in DOMAIN CollectionOf
               THEN LET c == CollectionOf[r.SetupEntityType] IN
                    /\ \A f \in DOMAIN before \ {c} : after[f] = before[f]
                    /\ \/ after[c] = before[c]
                       \/ /\ Len(after[c]) = Len(before[c]) + 1
                          /\ SubSeq(after[c], 1, Len(before[c])) = before[c]
               ELSE after = before
      /\ \A tag \in DOMAIN CollectionOf :
           Len(Bundles[owner][CollectionOf[tag]]) <= Cardinality(
             {i \in DOMAIN wave1.setupEntityAccess :
                wave1.setupEntityAccess[i] \in TaggedRecords(owner, tag)})

\* an owner has a TabSet record that gave an app and no tab, next to a record
\* with a tag the switch has no case for
C11_Witness ==
  /\ Done
  /\ \E owner \in DOMAIN Bundles :
       /\ TaggedRecords(owner, "TabSet") # {}
       /\ Bundles[owner].apps # <<>> /\ Bundles[owner].tabs = <<>>
       /\ \E r \in Range(wave1.setupEntityAccess) :
            OwnerOf(r.ParentId) = owner /\ r.SetupEntityType \notin DOMAIN CollectionOf

\* the grouping of the current call applied to other record lists
GroupWith(objectPermissions, fieldPermissions, setupEntityAccess) ==
  IF kind = "profile"
  THEN groupDataByProfile(ids, permSetToProfileMap, objectPermissions,
                          fieldPermissions, wave1.permissionSets,
                          setupEntityAccess, names.apexClassNames,
                          names.apexPageNames, names.recordTypeNames,
                          names.customTabNames, names.customAppNames,
                          wave1.lightningPageNames)
  ELSE groupDataByPermissionSet(ids, objectPermissions, fieldPermissions,
                                wave1.permissionSets, setupEntityAccess,
                                names.apexClassNames, names.apexPageNames,
                                names.recordTypeNames, names.customTabNames,
                                names.customAppNames, wave1.lightningPageNames)

\* the records of a list whose ParentId leads to owner, in their order
RecordsOf(records, owner) ==
  SelectSeq(records, LAMBDA r : OwnerOf(r.ParentId) = owner)

\* the records of a list whose ParentId leads to no bundle
Strays(records) == {r \in Range(records) : OwnerOf(r.ParentId) \notin DOMAIN Bundles}

\* C12: no cross-owner contamination: the bundle of an owner holds exactly
\* the object- and field-permission records whose ParentId maps to that
\* owner, and is the bundle the owner gets when the object-permission,
\* field-permission and setup-entity-access records of every other ParentId
\* (other owners', unmapped, not requested) are taken away; such records
\* are dropped and the call still returns.
C12_NoCrossOwnerContamination ==
  Done =>
    \A owner \in DOMAIN Bundles :
      /\ Bundles[owner].objectPermissions = RecordsOf(wave1.objectPermissions, owner)
      /\ Bundles[owner].fieldPermissions = RecordsOf(wave1.fieldPermissions, owner)
      /\ Bundles[owner] =
           GroupWith(RecordsOf(wave1.objectPermissions, owner),
                     RecordsOf(wave1.fieldPermissions, owner),
                     RecordsOf(wave1.setupEntityAccess, owner))[owner]

\* a call returned with two bundles that each hold records of all three
\* kinds, after receiving records of all three kinds that lead to no bundle
C12_Witness ==
  /\ Done
  /\ Strays(wave1.objectPermissions) # {}
  /\ Strays(wave1.fieldPermissions) # {}
  /\ Strays(wave1.setupEntityAccess) # {}
  /\ \E o1, o2 \in DOMAIN Bundles :
       /\ o1 # o2
       /\ \A o \in {o1, o2} :
            /\ Bundles[o].objectPermissions # <<>>
            /\ Bundles[o].fieldPermissions # <<>>
            /\ RecordsOf(wave1.setupEntityAccess, o) # <<>>

\* the metadata entry the call has for a profile
MetadataOf(profileId) ==
  IF profileId \in DOMAIN MetadataValue(ids) THEN MetadataValue(ids)[profileId]
  ELSE NoMetadata

\* the fallback mappings: one entry for each name grouped under tabs, apps
FallbackTabs(owner) == [n \in Range(Bundles[owner].tabs) |-> "DefaultOn"]
FallbackApps(owner) ==
  [n \in Range(Bundles[owner].apps) |-> [visible |-> TRUE, default |-> FALSE]]

\* C13: in profile mode tabVisibilities is the metadata tab mapping when that
\* has an entry and the fallback mapping otherwise, never a mixture; likewise
\* appVisibilities; and the two choices are made separately.
C13_RichOrFallbackNeverMixed ==
  Done /\ kind = "profile" =>
    \A i \in DOMAIN normalized :
      LET p == normalized[i]
          md == MetadataOf(p.profileId)
      IN  /\ p.tabVisibilities =
               IF DOMAIN md.tabVisibilities # {} THEN md.tabVisibilities
               ELSE FallbackTabs(p.profileId)
          /\ p.appVisibilities =
               IF DOMAIN md.appVisibilities # {} THEN md.appVisibilities
               ELSE FallbackApps(p.profileId)

\* a profile took its tabs from the metadata and its apps from the fallback
\* while the fallback had a tab the metadata lacks, and another profile of the
\* same call did the reverse
C13_Witness ==
  /\ Done /\ kind = "profile"
  /\ \E i, j \in DOMAIN normalized :
       LET p == normalized[i]
           q == normalized[j]
       IN  /\ DOMAIN MetadataOf(p.profileId).tabVisibilities # {}
           /\ DOMAIN MetadataOf(p.profileId).appVisibilities = {}
           /\ DOMAIN FallbackTabs(p.profileId) \ DOMAIN p.tabVisibilities # {}
           /\ DOMAIN p.appVisibilities # {}
           /\ DOMAIN MetadataOf(q.profileId).tabVisibilities = {}
           /\ DOMAIN MetadataOf(q.profileId).appVisibilities # {}
           /\ DOMAIN q.tabVisibilities # {}
           /\ DOMAIN FallbackApps(q.profileId) \ DOMAIN q.appVisibilities # {}

\* the names the owner's records of one tag resolve to in a name map
ResolvedNames(owner, tag, nameMap) ==
  {nameMap[r.SetupEntityId] :
     r \in {q \in TaggedRecords(owner, tag) : Truthy(MapGet(nameMap, q.SetupEntityId))}}

\* whether the fallback is used for the tabs, the apps of a returned profile
TabFallbackUsed(profileId) ==
  kind = "permset" \/ DOMAIN MetadataOf(profileId).tabVisibilities = {}
AppFallbackUsed(profileId) ==
  kind = "permset" \/ DOMAIN MetadataOf(profileId).appVisibilities = {}

\* C14: whenever the fallback is used (always in permission-set mode, in
\* profile mode when the metadata has no entry or an empty mapping),
\* tabVisibilities maps exactly the owner's resolved CustomTab names to
\* DefaultOn, and appVisibilities exactly the owner's resolved TabSet names
\* to visible, not default.
C14_FallbackVisibilities ==
  Done =>
    \A i \in DOMAIN normalized :
      LET p == normalized[i] IN
      /\ TabFallbackUsed(p.profileId) =>
           p.tabVisibilities =
             [n \in ResolvedNames(p.profileId, "CustomTab", names.customTabNames)
                |-> "DefaultOn"]
      /\ AppFallbackUsed(p.profileId) =>
           p.appVisibilities =
             [n \in ResolvedNames(p.profileId, "TabSet", names.customAppNames)
                |-> [visible |-> TRUE, default |-> FALSE]]

\* a profile whose metadata entry has two empty mappings got a tab and an
\* app from the fallback, and has a tab and an app whose names do not resolve
C14_Witness ==
  /\ Done /\ kind = "profile"
  /\ \E i \in DOMAIN normalized :
       LET p == normalized[i] IN
       /\ MetadataOf(p.profileId).present
       /\ TabFallbackUsed(p.profileId) /\ AppFallbackUsed(p.profileId)
       /\ DOMAIN p.tabVisibilities # {} /\ DOMAIN p.appVisibilities # {}
       /\ \E r \in TaggedRecords(p.profileId, "CustomTab") :
            ~Truthy(MapGet(names.customTabNames, r.SetupEntityId))
       /\ \E r \in TaggedRecords(p.profileId, "TabSet") :
            ~Truthy(MapGet(names.customAppNames, r.SetupEntityId))

\* the comparison key of a Lightning page: its name in the catalog the call
\* received, its raw id when the catalog has none
PageKey(id) ==
  IF Truthy(MapGet(wave1.lightningPageNames, id)) THEN wave1.lightningPageNames[id]
  ELSE id

\* C15 as claimed: for every FlexiPage record of a requested owner, the
\* owner's lightningPages holds the resolved page name, or the raw
\* SetupEntityId when the catalog has no name for it, in profile mode and in
\* permission-set mode alike.
C15_PageNameOrRawId ==
  Done =>
    \A i \in DOMAIN normalized :
      \A r \in TaggedRecords(normalized[i].profileId, "FlexiPage") :
        \E k \in DOMAIN normalized[i].lightningPages :
          normalized[i].lightningPages[k] = PageKey(r.SetupEntityId)

\* the same statement for normalizeProfiles alone
C15_ProfileModeOnly ==
  Done /\ kind = "profile" =>
    \A i \in DOMAIN normalized :
      \A r \in TaggedRecords(normalized[i].profileId, "FlexiPage") :
        \E k \in DOMAIN normalized[i].lightningPages :
          normalized[i].lightningPages[k] = PageKey(r.SetupEntityId)

WaveTwoSent == {n \in DOMAIN sent : sent[n].wave = 2}

\* records.filter(tag).map(SetupEntityId), written with SelectSeq
TaggedIds(records, tag) ==
  LET tagged == SelectSeq(records, LAMBDA e : e.SetupEntityType = tag)
  IN  [n \in 1 .. Len(tagged) |-> tagged[n].SetupEntityId]

\* C17: in every run, a step that issues a name-resolution query starts in a
\* state where each of the five wave-one queries has settled, by fulfilling
\* or by rejecting; and the id list passed to the apex-class lookup and to
\* the VF-page lookup is the sequence of SetupEntityIds of the ApexClass and
\* of the ApexPage records in the setup-entity-access result of wave one.
C17_TwoWaveOrdering ==
  /\ [][WaveTwoSent' # {} /\ WaveTwoSent = {} =>
          \A i \in WaveOne : results[i] # "pending"]_vars
  /\ [](\A n \in WaveTwoSent :
          /\ sent[n].query = 1 =>
               sent[n].arg = TaggedIds(wave1.setupEntityAccess, "ApexClass")
          /\ sent[n].query = 2 =>
               sent[n].arg = TaggedIds(wave1.setupEntityAccess, "ApexPage"))

\* wave two was issued after one wave-one query rejected and another
\* fulfilled, and both id lists passed on are non-empty
C17_Witness ==
  /\ pc = "wave2"
  /\ \E i \in WaveOne : results[i] = "rejected"
  /\ results[4] = "fulfilled"
  /\ \E n, m \in WaveTwoSent :
       /\ sent[n].query = 1 /\ sent[n].arg # <<>>
       /\ sent[m].query = 2 /\ sent[m].arg # <<>>

\* the name map of wave-two lookup j
NameMapOf(j) ==
  CASE j = 1 -> names.apexClassNames
    [] j = 2 -> names.apexPageNames
    [] j = 3 -> names.recordTypeNames
    [] j = 4 -> names.customTabNames
    [] j = 5 -> names.customAppNames

\* C18: once wave two has returned, the name map of a lookup that rejected
\* is empty and the name map of each other lookup is what that lookup
\* resolved with; and in the log of the run no query of wave one or of wave
\* two occurs twice, whatever its outcome.
C18_FailedLookupEmptyNoRetry ==
  /\ pc \in {"meta", "done"} =>
       \A j \in WaveTwo :
         NameMapOf(j) = IF lookups[j] = "rejected" THEN EmptyMap
                        ELSE WaveTwoValue(j, lookupIds)
  /\ \A m, n \in DOMAIN sent :
       sent[m].wave = sent[n].wave /\ sent[m].query = sent[n].query => m = n

\* wave two has returned after the apex-class lookup rejected and the
\* VF-page lookup resolved some names; both waves were issued, some wave-one
\* query having rejected
C18_Witness ==
  /\ pc \in {"meta", "done"}
  /\ lookups[1] = "rejected" /\ lookups[2] = "fulfilled"
  /\ names.apexPageNames # EmptyMap
  /\ WaveTwoValue(1, lookupIds) # EmptyMap
  /\ Len(sent) = 10
  /\ \E i \in WaveOne : results[i] = "rejected"

\* the body of the request lacks the comparison or lacks the profiles
LacksData == request.comparison = "undefined" \/ request.profiles = "undefined"

\* C19 as claimed: every request to /csv or /json whose body lacks the
\* comparison or the profiles is answered with status 400, no CSV generator
\* is called for it and no download header is set.
C19_LackingBodyGets400 ==
  request # NoRequest /\ LacksData =>
    /\ invoked = <<>>
    /\ response.headers = EmptyMap
    /\ stage = "sent" => response.status = 400

\* C19: a request whose body lacks the comparison or the profiles has no
\* CSV generator called and no download header set, and when its session
\* carries an access token it is answered with status 400 and the error
\* body; without a token the answer of requireAuth comes first.
C19_LackingBodyGets400IfAuthenticated ==
  request # NoRequest /\ LacksData =>
    /\ invoked = <<>>
    /\ response.headers = EmptyMap
    /\ stage = "sent" /\ Authenticated(request) =>
         response = JsonError(400, "Comparison data is required")

\* an authenticated request to /csv for the detailed format, with profiles
\* and no comparison, has been answered
C19_Witness ==
  /\ stage = "sent" /\ entered
  /\ request.route = "csv"
  /\ request.comparison = "undefined" /\ request.profiles = "data"
  /\ request.options = [present |-> TRUE, format |-> "detailed"]
  /\ response.status = 400

\* C20: whatever requests came before, no handler body runs for a request
\* whose session carries no access token, and the answer to it is 401.
C20_NoTokenNoHandler ==
  request # NoRequest /\ ~Truthy(AccessTokenOf(request.salesforce)) =>
    /\ ~entered
    /\ stage # "handler"
    /\ stage = "sent" =>
         response = JsonError(401, "Authentication required")

\* a request with a complete body and a salesforce entry without a token
\* was answered 401 right after an export that succeeded
C20_Witness ==
  /\ stage = "sent"
  /\ answered = <<200, 401>>
  /\ request.salesforce.present
  /\ request.comparison = "data" /\ request.profiles = "data"

\* the DiffItems a call of generateCSV should give a row, in their order
RowsDue(call) ==
  LET o == call.options
      Due(d) ==
        /\ o.includeUnchanged = "true" \/ d.diffType # "unchanged"
        /\ \/ ~o.categories.present
           \/ o.categories.list = <<>>
           \/ "all" \in Range(o.categories.list)
           \/ d.category \in Range(o.categories.list)
  IN  SelectSeq(call.comparison.differences, Due)

\* C21: after the header, the lines generateCSV built are one row for each
\* DiffItem that passes the category filter and, when includeUnchanged is
\* false, is not unchanged, in the order of differences (so with
\* includeUnchanged false no row is of an unchanged DiffItem, with true
\* every DiffItem that passes the filter has its row); and POST /csv passes
\* includeUnchanged false when the body's options do not supply it.
C21_UnchangedSuppressedAtExport ==
  csvCall # NoCall =>
    /\ Len(csvLines) = 1 + Len(RowsDue(csvCall))
    /\ \A n \in DOMAIN RowsDue(csvCall) :
         csvLines[n + 1] = DataRow(csvCall.comparison, RowsDue(csvCall)[n])
    /\ csvCall.options.includeUnchanged = "false" =>
         \A n \in 2 .. Len(csvLines) : csvLines[n][4] # "unchanged"
    /\ csvCall.via = "route" /\ csvCall.body.includeUnchanged \in {"undefined", "null"} =>
         csvCall.options.includeUnchanged = "false"

\* generateCSV was called with includeUnchanged true on three DiffItems, the
\* second unchanged, and built a row for each
C21_Witness ==
  /\ csvCall # NoCall
  /\ csvCall.via = "direct"
  /\ csvCall.options.includeUnchanged = "true"
  /\ Len(csvCall.comparison.differences) = 3
  /\ csvCall.comparison.differences[2].diffType = "unchanged"
  /\ csvCall.comparison.differences[1].diffType = "added"
  /\ Len(csvLines) = 4

\* POST /csv was called without the option on an unchanged DiffItem between
\* two others and built two rows
C21_WitnessRoute ==
  /\ csvCall # NoCall
  /\ csvCall.via = "route"
  /\ csvCall.body.includeUnchanged = "undefined"
  /\ Len(csvCall.comparison.differences) = 3
  /\ csvCall.comparison.differences[2].diffType = "unchanged"
  /\ Len(csvLines) = 3

\* the DiffItems of a ComparisonResult that are not unchanged
NotUnchanged(result) ==
  {n \in DOMAIN result.differences : result.differences[n].diffType # "unchanged"}

\* C22: in every ComparisonResult the Diff Engine returns, totalDifferences
\* is the sum of the nine summary counts and is the number of DiffItems of
\* differences whose diffType is not unchanged.
C22_SummaryConsistency ==
  comparisonResult # NoComparison =>
    LET r == comparisonResult IN
    /\ DOMAIN r.summary =
         {"objectPermissions", "fieldPermissions", "systemPermissions", "apexClasses",
          "visualforcePages", "lightningPages", "recordTypes", "tabVisibilities",
          "appVisibilities"}
    /\ r.totalDifferences =
         r.summary["objectPermissions"] + r.summary["fieldPermissions"] +
         r.summary["systemPermissions"] + r.summary["apexClasses"] +
         r.summary["visualforcePages"] + r.summary["lightningPages"] +
         r.summary["recordTypes"] + r.summary["tabVisibilities"] +
         r.summary["appVisibilities"]
    /\ r.totalDifferences = Cardinality(NotUnchanged(r))

\* a comparison of three entities has differences in several categories and
\* unchanged DiffItems beside them
C22_Witness ==
  /\ comparisonResult # NoComparison
  /\ Len(compared) = 3
  /\ comparisonResult.totalDifferences >= 4
  /\ comparisonResult.summary["apexClasses"] >= 1
  /\ comparisonResult.summary["objectPermissions"] >= 1
  /\ comparisonResult.summary["tabVisibilities"] >= 1
  /\ Len(comparisonResult.differences) > comparisonResult.totalDifferences

\* whether entity n of the comparison has the name in the membership category
Has(n, category, name) == name \in Range(MembersOf(compared[n], category))

\* the DiffItems of the comparison for the name in the category
ItemsFor(category, name) ==
  {k \in DOMAIN comparisonResult.differences :
     /\ comparisonResult.differences[k].category = category
     /\ comparisonResult.differences[k].permissionName = name}

\* C23: for a name of a membership category that some compared entity has
\* and some lacks there is one DiffItem; its diffType is added when the
\* first entity lacks the name (and so a later one has it) and removed when
\* the first entity has it (and so a later one lacks it), whatever the
\* entities after the first two hold; with two entities: removed when the
\* first has it and the second lacks it, added for the converse.
C23_FirstEntityDecides ==
  comparisonResult # NoComparison =>
    \A category \in MembershipCategories :
      \A name \in {"Foo", "Bar", "Page", "Home", "Account.Master"} :
        LET holders == {n \in DOMAIN compared : Has(n, category, name)} IN
        holders # {} /\ holders # DOMAIN compared =>
          /\ Cardinality(ItemsFor(category, name)) = 1
          /\ \A k \in ItemsFor(category, name) :
               comparisonResult.differences[k].diffType =
                 IF 1 \in holders THEN "removed" ELSE "added"

\* three entities were compared: the first lacks Foo, the second has it and
\* the third lacks it again, and the first alone has Bar
C23_Witness ==
  /\ comparisonResult # NoComparison
  /\ Len(compared) = 3
  /\ ~Has(1, "apexClass", "Foo") /\ Has(2, "apexClass", "Foo") /\ ~Has(3, "apexClass", "Foo")
  /\ Has(1, "apexClass", "Bar") /\ ~Has(2, "apexClass", "Bar") /\ ~Has(3, "apexClass", "Bar")
  /\ \E k \in ItemsFor("apexClass", "Foo") :
       comparisonResult.differences[k].diffType = "added"

\* C24: a step that posts a compare request starts with two or more items
\* selected; when no permission set is selected the request goes to the
\* profile endpoint with the selected profiles, and when one or more is
\* selected it goes to the permission-set endpoint with the selected
\* permission sets and the selected profiles as includeProfiles.
C24_CompareNeedsTwo ==
  [][Len(compareRequests') > Len(compareRequests) =>
       LET posted == compareRequests'[Len(compareRequests')] IN
       /\ Len(selectedProfileIds) + Len(selectedPermSetIds) >= 2
       /\ selectedPermSetIds = <<>> =>
            /\ posted.endpoint = "/profiles/compare"
            /\ posted.body = [profileIds |-> selectedProfileIds]
       /\ selectedPermSetIds # <<>> =>
            /\ posted.endpoint = "/profiles/permission-sets/compare"
            /\ posted.body = [permissionSetIds |-> selectedPermSetIds,
                            includeProfiles |-> selectedProfileIds]]_vars

\* after toggles, a first request with two profiles failed and a second one
\* with one profile and one permission set was posted
C24_Witness ==
  /\ Len(compareRequests) = 2
  /\ compareRequests[1].endpoint = "/profiles/compare"
  /\ compareRequests[2].endpoint = "/profiles/permission-sets/compare"
  /\ Len(compareRequests[2].body.includeProfiles) = 1
  /\ Len(compareRequests[2].body.permissionSetIds) = 1

\* the entries in the storage, in stored order
StoredEntries == StoredList(storage)

\* the entries of a list, as a set
EntriesOf(list) == {list[i] : i \in DOMAIN list}

\* newest first, and no entry twice
NewestFirst(list) == \A i, j \in DOMAIN list : i < j => list[i].timestamp >= list[j].timestamp /\ list[i] # list[j]

\* every entry of before that list leaves out is no newer than any it keeps
MostRecentOf(list, before) == \A old \in EntriesOf(before) \ EntriesOf(list) : \A e \in EntriesOf(list) : e.timestamp >= old.timestamp

\* C25: the stored history never holds more than MAX_HISTORY_ENTRIES
\* entries, and after a saveToHistory one of whose writes went through the
\* stored list is the new entry followed by the most recent of the entries
\* stored before, newest first: all of them, or as many as fill the list
\* to 20 (to 10 when the retry wrote it)
C25_HistoryBoundedNewestFirst ==
  /\ Len(StoredEntries) <= MAX_HISTORY_ENTRIES
  /\ (historyCall.op = "save" /\ historyCall.wrote # "none") =>
       /\ StoredEntries # <<>>
       /\ Head(StoredEntries) = historyCall.entry
       /\ EntriesOf(Tail(StoredEntries)) \subseteq EntriesOf(historyCall.before)
       /\ NewestFirst(Tail(StoredEntries))
       /\ MostRecentOf(Tail(StoredEntries), historyCall.before)
       /\ \/ Len(StoredEntries) = Len(historyCall.before) + 1
          \/ historyCall.wrote = "first" /\ Len(StoredEntries) = MAX_HISTORY_ENTRIES
          \/ historyCall.wrote = "retry" /\ Len(StoredEntries) = MAX_HISTORY_ENTRIES \div 2

\* a save onto a full history went through and the oldest entry is gone
C25_Witness ==
  /\ historyCall.op = "save"
  /\ historyCall.wrote = "first"
  /\ Len(historyCall.before) = MAX_HISTORY_ENTRIES
  /\ Len(StoredEntries) = MAX_HISTORY_ENTRIES
  /\ EntriesOf(historyCall.before) \ EntriesOf(StoredEntries) # {}

\* a save went through onto a history that was not stored newest first
C25_WitnessUnsorted ==
  /\ historyCall.op = "save"
  /\ historyCall.wrote = "first"
  /\ ~NewestFirst(historyCall.before)

\* an org id that is known
Known(orgId) == orgId # "undefined"

\* the entry was saved for another org than the current one
OtherOrg(entry, orgId) == Known(entry.orgId) /\ Known(orgId) /\ entry.orgId # orgId

\* C26: in HistoryPanel a click on the row of an entry saved for another
\* org (both org ids known, and different) never calls onLoadComparison,
\* while a click on its delete button whose write goes through removes
\* that entry from the storage and leaves every other stored entry there
C26_OtherOrgNeverLoaded ==
  [][\A i \in DOMAIN history :
       OtherOrg(history[i], currentOrgId) =>
         /\ ClickRow(i) => loadedComparisons' = loadedComparisons
         /\ handleDelete(i, "stored") =>
              /\ EntriesOf(StoredList(storage')) = EntriesOf(StoredList(storage)) \ {history[i]}
              /\ Len(StoredList(storage')) = Len(StoredList(storage)) - 1]_vars

\* the row of an entry of another org was clicked and nothing was loaded
C26_Witness ==
  /\ panelClick.on = "row"
  /\ OtherOrg(panelClick.entry, panelClick.currentOrgId)
  /\ ~panelClick.called
  /\ loadedComparisons = <<>>

\* an entry of another org was deleted from the panel and another entry is
\* still stored
C26_WitnessDeleted ==
  /\ panelClick.on = "delete"
  /\ OtherOrg(panelClick.entry, panelClick.currentOrgId)
  /\ ~panelClick.threw
  /\ historyCall.op = "delete"
  /\ StoredEntries # <<>>
  /\ panelClick.entry \notin EntriesOf(StoredEntries)

\* C27: the output of a normalizeProfiles call holds a profile only if the
\* basic-record list that same call fetched holds it, also on a second call
\* made on the same ProfileNormalizer after the profile has gone upstream
C27_StatelessAcrossRuns ==
  (Done /\ kind = "profile") => {normalized[i].profileId : i \in DOMAIN normalized} \subseteq allProfiles

\* a list with its records at i and j exchanged
Swapped(list, i, j) == [k \in DOMAIN list |-> IF k = i THEN list[j] ELSE IF k = j THEN list[i] ELSE list[k]]

\* the lists that exchange two records of a list
SwapsOf(list) == {Swapped(list, i, j) : i, j \in DOMAIN list}

\* the wave-one results with two records of one of the four record lists
\* exchanged
Reorderings(w) ==
  {[w EXCEPT !.objectPermissions = list] : list \in SwapsOf(w.objectPermissions)}
    \cup {[w EXCEPT !.fieldPermissions = list] : list \in SwapsOf(w.fieldPermissions)}
    \cup {[w EXCEPT !.permissionSets = list] : list \in SwapsOf(w.permissionSets)}
    \cup {[w EXCEPT !.setupEntityAccess = list] : list \in SwapsOf(w.setupEntityAccess)}

\* what the current call returns when wave one resolves with w and every
\* other upstream call does what it did in the current call
ReturnFor(w) ==
  LET nm == NamesAfter({}, LookupIdsOf(kind, w.setupEntityAccess))
  IN IF kind = "profile"
     THEN FinishProfiles(ids, profiles, permSetToProfileMap, w, nm, MetadataValue(ids))
     ELSE FinishPermSets(ids, permSetMap, w, nm)

\* C28: exchanging two records of the object-permission, field-permission,
\* system-permission or setup-entity-access list leaves the returned
\* CanonicalProfiles as they are, also when an owner has two records for
\* one object
C28_RecordOrderIndependence ==
  Done => \A w \in Reorderings(wave1) : ReturnFor(w) = normalized

\* no owner has two object-permission records for one object, nor two
\* field-permission records for one field
NoRecordTwice(w) ==
  /\ \A i, j \in DOMAIN w.objectPermissions :
       (w.objectPermissions[i].ParentId = w.objectPermissions[j].ParentId
          /\ w.objectPermissions[i].SobjectType = w.objectPermissions[j].SobjectType) => i = j
  /\ \A i, j \in DOMAIN w.fieldPermissions :
       (w.fieldPermissions[i].ParentId = w.fieldPermissions[j].ParentId
          /\ w.fieldPermissions[i].SobjectType = w.fieldPermissions[j].SobjectType
          /\ w.fieldPermissions[i].Field = w.fieldPermissions[j].Field) => i = j

\* the same for results in which no owner has a record twice
C28_OrderIndependenceOfDistinctRecords ==
  (Done /\ NoRecordTwice(wave1)) => \A w \in Reorderings(wave1) : ReturnFor(w) = normalized

\* the queries of a wave whose own promise rejected
RejectedOf(wave) == {i \in DOMAIN settledAs[wave] : settledAs[wave][i] = "rejected"}

\* what the current call returns when the wave-one queries in failedOne and
\* the wave-two lookups in failedTwo reject and all the others fulfil
ReturnGiven(failedOne, failedTwo) ==
  LET w1 == WaveOneLocals(failedOne)
      nm == NamesAfter(failedTwo, LookupIdsOf(kind, w1.setupEntityAccess))
  IN IF kind = "profile"
     THEN FinishProfiles(ids, profiles, permSetToProfileMap, w1, nm, MetadataValue(ids))
     ELSE FinishPermSets(ids, permSetMap, w1, nm)

\* C29: whatever the order in which the five promises of wave one and the
\* five of wave two settle, what the call returns is what the outcome of
\* each query, taken by query, determines
C29_CompletionOrderIndependence ==
  Done => /\ AllSettled(settledAs.one) /\ AllSettled(settledAs.two)
          /\ normalized = ReturnGiven(RejectedOf("one"), RejectedOf("two"))

\* a call returned profiles after some queries of each wave rejected and
\* others fulfilled, and the rejections show in what it returned
C29_Witness ==
  /\ Done
  /\ RejectedOf("one") \notin {{}, WaveOne}
  /\ RejectedOf("two") \notin {{}, WaveTwo}
  /\ normalized # <<>>
  /\ normalized # ReturnGiven({}, {})

\* C30: saveToHistory never throws and returns the new entry, whatever its
\* writes do: after it the stored list is the one stored before, or the new
\* entry followed by earlier ones (ten entries at most when the retry wrote
\* it)
C30_SaveNeverThrows ==
  historyCall.op = "save" =>
    /\ ~historyCall.threw
    /\ historyCall.returned
    /\ \/ StoredEntries = historyCall.before
       \/ /\ StoredEntries # <<>>
          /\ Head(StoredEntries) = historyCall.entry
          /\ EntriesOf(Tail(StoredEntries)) \subseteq EntriesOf(historyCall.before)
          /\ historyCall.wrote = "retry" => Len(StoredEntries) <= MAX_HISTORY_ENTRIES \div 2

\* the same without the claim that it never throws: the stored list is
\* left as it was or replaced by a list that starts with the new entry
C30_StoredListStaysValid ==
  historyCall.op = "save" =>
    \/ StoredEntries = historyCall.before
    \/ /\ StoredEntries # <<>>
       /\ Head(StoredEntries) = historyCall.entry
       /\ EntriesOf(Tail(StoredEntries)) \subseteq EntriesOf(historyCall.before)
       /\ historyCall.wrote = "retry" => Len(StoredEntries) <= MAX_HISTORY_ENTRIES \div 2

====
